---- MODULE Spec2Model ----
(***************************************************************************)
(* Verification model of lzd (seanhobeck/lzd): the ring job queue          *)
(* (ring.c), the worker pool (wrk.c) and the presentation model with its   *)
(* command interpreter (ui.c, ux.c).                                       *)
(*                                                                         *)
(* Every critical section on pool->lock is one atomic action; the code     *)
(* between two critical sections is a separate action, so states are       *)
(* observed exactly where the pool mutex is free.                          *)
(***************************************************************************)
EXTENDS Integers, Sequences, FiniteSets, TLC

(***************************************************************************)
(* Bounds of the model.                                                    *)
(***************************************************************************)
NumWorkers == 2
MaxPosts == 4
MaxRingPosts == 20
MaxShutdowns == 2
MaxInnerH == 2
MaxInsns == 3
MaxBlocks == 5
MaxScans == 2
MaxCalls == 1
MaxFailAt == 2
MaxSecLen == 4
MaxMinLen == 3
MaxSyms == 3
MaxFileSize == 200
MaxModelCalls == 2
MaxPushes == 18
MaxPops == 2
MaxMake == 9
MaxDisjPosts == 3
PtrSize == 8
TextVaddr == 64

(***************************************************************************)
(* Program constants.                                                      *)
(***************************************************************************)
RingInitCap == 16
NULL == 0

Workers == 1..NumWorkers
JobIds == 1..(IF MaxPosts > MaxRingPosts THEN MaxPosts ELSE MaxRingPosts)
Fg == 0
Unlocked == -1

VARIABLES
    count,          \* pool->count, the number of worker threads
    limit,          \* how many jobs the client posts at most in this run
    ring,           \* pool->job_queue: [data, capacity, head, tail, count]
    queued,         \* pool->queued
    active,         \* pool->active
    shutting_down,  \* pool->shutting_down
    has_work,       \* threads blocked in pthread_cond_wait(&pool->has_work)
    idle,           \* threads blocked in pthread_cond_wait(&pool->idle)
    wpc,            \* position of each worker thread inside wrk_main
    wjob,           \* the job_t a worker holds (NULL when none)
    joined,         \* worker threads already reaped by pthread_join
    fgpc,           \* position of the client thread inside the pool API
    fgjob,          \* job_t made by the wrk_pool_post call in progress
    fgj,            \* loop index i of the join loop in wrk_pool_shutdown
    in_destroy,     \* the running wrk_pool_shutdown was called by destroy
    ret,            \* value returned by the last wrk_pool_post
    njobs,          \* number of job_t records allocated so far
    nshutdown,      \* number of wrk_pool_shutdown calls started
    posted,         \* jobs whose wrk_pool_post returned success
    invoked,        \* per job: how many times job->fn was called
    returned,       \* jobs whose job->fn has returned
    fifo            \* history: the jobs pushed and not yet popped, in order

VARIABLES
    jobarg,         \* per job: the disas_job_t it carries (file and range)
    instructions,   \* model->instructions: the ux_insn_t records, in order
    strings,        \* model->strings
    symbols,        \* model->symbols
    view_mode,      \* model->view_mode
    selected,       \* model->selected
    scroll,         \* model->scroll
    cmd,            \* model->cmd, a sequence of characters
    status,         \* model->status
    mlock,          \* owner of model->lock (Unlocked when no thread holds it)
    uxpc,           \* position of the foreground thread in ui_run
    g_ctx,          \* the file held by the global emit context (NULL: none)
    openk,          \* emit_all: index of the next code range to post
    widx,           \* ui_model_add_insns: per worker, next index to append
    nopen,          \* number of open commands that passed the fopen test
    session,        \* the run: lines typed, keys used, pool size, window
    ctx,            \* an emit_ctx_t: text_data, text_vaddr, code_ranges
    ehist,          \* history of the emit calls made on ctx
    file,           \* the file on disk that elf_parse and the extractors read
    elf,            \* the elf_t that elf_parse returned (null: 0x0)
    dyna,           \* a dyna_t: length, capacity and data
    libret,         \* the value returned by the last library call
    disj            \* the disassembly jobs: their memory, the decoder of each
                    \* thread, the batches published

libVars == <<file, elf, dyna, libret, disj>>

uxVars == <<jobarg, instructions, strings, symbols, view_mode, selected,
            scroll, cmd, status, mlock, uxpc, g_ctx, openk, widx, nopen,
            session, ctx, ehist, libVars>>

\* a session fixes the lines the user may type, the other keys the user
\* presses, the number of worker threads, the height of the list window,
\* whether allocations may fail and how many files the user opens.
Session(ls, ks, n, h, oom, k) ==
    [lines |-> ls, keys |-> ks, workers |-> n, inner_h |-> h, oom |-> oom,
     opens |-> k]

NoSession == Session({}, {}, 0, 0, FALSE, 0)

\* an emit context as emit_load leaves it; valid is FALSE when emit_load
\* returned 0x0.
EmitCtx(valid, text, vaddr) ==
    [valid |-> valid, text_data |-> text, text_vaddr |-> vaddr,
     code_ranges |-> <<>>]

\* no emit call has been made yet.
NoCalls == [scans |-> 0, scan_rv |-> 0, calls |-> 0, range_rv |-> 0, posted |-> 0]

\* no file has been parsed and no sequence is under study.
NoLib ==
    /\ file = [null |-> TRUE]
    /\ elf = [null |-> TRUE]
    /\ dyna = [null |-> TRUE]
    /\ disj = [null |-> TRUE]
    /\ libret = [call |-> "none"]

\* the emit context is not in use.
NoEmit ==
    /\ ctx = EmitCtx(FALSE, <<>>, 0)
    /\ ehist = NoCalls

poolVars == <<count, limit, ring, queued, active, shutting_down, has_work, idle, wpc, wjob,
              joined, fgpc, fgjob, fgj, in_destroy, ret, njobs, nshutdown,
              posted, invoked, returned, fifo>>

vars == <<poolVars, uxVars>>

(***************************************************************************)
(* ring.c                                                                  *)
(***************************************************************************)
ring_init ==
    [data |-> [i \in 1..RingInitCap |-> NULL], capacity |-> RingInitCap,
     head |-> 0, tail |-> 0, count |-> 0]

ring_grow_nolinear(r) ==
    LET mew == IF r.capacity = 0 THEN 16 ELSE r.capacity * 2
    IN  [data |-> [i \in 1..mew |-> IF i <= r.capacity THEN r.data[i] ELSE NULL],
         capacity |-> mew, head |-> 0, tail |-> r.count, count |-> r.count]

\* ring_grow on a successful calloc: double and linearise into [0..count).
ring_grow(r) ==
    LET mew == IF r.capacity = 0 THEN 16 ELSE r.capacity * 2
    IN  [data |-> [i \in 1..mew |->
                     IF i <= r.count
                     THEN r.data[((r.head + (i - 1)) % r.capacity) + 1]
                     ELSE NULL],
         capacity |-> mew, head |-> 0, tail |-> r.count, count |-> r.count]

\* ring_push: growok is the outcome of the calloc in ring_grow.
ring_push(r, item, growok) ==
    IF r.count = r.capacity /\ ~growok
    THEN [ring |-> r, rv |-> -1]
    ELSE LET g == IF r.count = r.capacity THEN ring_grow(r) ELSE r
         IN  [ring |-> [g EXCEPT !.data[g.tail + 1] = item,
                                 !.tail = (g.tail + 1) % g.capacity,
                                 !.count = g.count + 1],
              rv |-> 0]

ring_pop(r) ==
    IF r.count = 0
    THEN [ring |-> r, item |-> NULL]
    ELSE [ring |-> [r EXCEPT !.data[r.head + 1] = NULL,
                             !.head = (r.head + 1) % r.capacity,
                             !.count = r.count - 1],
          item |-> r.data[r.head + 1]]

\* the logical window [head .. head+count) of a ring, as a sequence.
RingContents(r) ==
    [i \in 1..r.count |-> r.data[((r.head + (i - 1)) % r.capacity) + 1]]

(***************************************************************************)
(* wrk.c: worker thread                                                    *)
(***************************************************************************)
\* pthread_cond_signal: wakes one of the waiting threads, if any.
Signal(cv) == IF cv = {} THEN {{}} ELSE {cv \ {t} : t \in cv}

\* a thread parked on a condition variable may run again once it has been
\* removed from the waiter set (by signal, broadcast or a spurious wake-up).
AtLoopTop(w) ==
    \/ wpc[w] = "lock"
    \/ wpc[w] = "wait" /\ w \notin has_work

WaitCond(sd, cnt) == ~sd /\ cnt = 0

ExitCond_nocount(sd, cnt) == sd

ExitCond(sd, cnt) == sd /\ cnt = 0

IdleCond_never(q, a) == FALSE

IdleCond(q, a) == q = 0 /\ a = 0

\* wrk_main, the while loop: nothing to do, block on has_work.
WrkWait(w) ==
    /\ AtLoopTop(w)
    /\ WaitCond(shutting_down, ring.count)
    /\ wpc' = [wpc EXCEPT ![w] = "wait"]
    /\ has_work' = has_work \cup {w}
    /\ UNCHANGED <<count, limit, ring, queued, active, shutting_down, idle, wjob, joined,
                   fgpc, fgjob, fgj, in_destroy, ret, njobs, nshutdown,
                   posted, invoked, returned, fifo>>
    /\ UNCHANGED uxVars

\* wrk_main: leave the loop.
WrkExit(w) ==
    /\ AtLoopTop(w)
    /\ ~WaitCond(shutting_down, ring.count)
    /\ ExitCond(shutting_down, ring.count)
    /\ wpc' = [wpc EXCEPT ![w] = "exited"]
    /\ UNCHANGED <<count, limit, ring, queued, active, shutting_down, has_work, idle, wjob,
                   joined, fgpc, fgjob, fgj, in_destroy, ret, njobs,
                   nshutdown, posted, invoked, returned, fifo>>
    /\ UNCHANGED uxVars

\* wrk_main: pop a job and count it active.
WrkTake(w) ==
    /\ AtLoopTop(w)
    /\ ~WaitCond(shutting_down, ring.count)
    /\ ~ExitCond(shutting_down, ring.count)
    /\ LET p == ring_pop(ring)
       IN  /\ ring' = p.ring
           /\ wjob' = [wjob EXCEPT ![w] = p.item]
           /\ fifo' = IF ring.count = 0 THEN fifo ELSE Tail(fifo)
    /\ active' = active + 1
    /\ wpc' = [wpc EXCEPT ![w] = "call"]
    /\ UNCHANGED <<count, limit, queued, shutting_down, has_work, idle, joined, fgpc, fgjob,
                   fgj, in_destroy, ret, njobs, nshutdown, posted, invoked,
                   returned>>
    /\ UNCHANGED uxVars

\* wrk_main: if (job && job->fn) job->fn(job->arg), entry into the function.
WrkCall(w) ==
    /\ wpc[w] = "call"
    /\ IF wjob[w] # NULL
       THEN /\ invoked' = [invoked EXCEPT ![wjob[w]] = @ + 1]
            /\ wpc' = [wpc EXCEPT ![w] = "infn"]
       ELSE /\ invoked' = invoked
            /\ wpc' = [wpc EXCEPT ![w] = "done"]
    /\ UNCHANGED <<count, limit, ring, queued, active, shutting_down, has_work, idle, wjob,
                   joined, fgpc, fgjob, fgj, in_destroy, ret, njobs,
                   nshutdown, posted, returned, fifo>>
    /\ UNCHANGED uxVars

\* the job function returns; free(job).
WrkReturn(w) ==
    /\ wpc[w] = "infn"
    /\ returned' = returned \cup {wjob[w]}
    /\ wjob' = [wjob EXCEPT ![w] = NULL]
    /\ wpc' = [wpc EXCEPT ![w] = "done"]
    /\ UNCHANGED <<count, limit, ring, queued, active, shutting_down, has_work, idle, joined,
                   fgpc, fgjob, fgj, in_destroy, ret, njobs, nshutdown,
                   posted, invoked, fifo>>
    /\ UNCHANGED uxVars

\* wrk_main: active--, broadcast idle when nothing is queued or active.
WrkDone(w) ==
    /\ wpc[w] = "done"
    /\ active' = active - 1
    /\ idle' = IF IdleCond(queued, active - 1) THEN {} ELSE idle
    /\ wpc' = [wpc EXCEPT ![w] = "lock"]
    /\ UNCHANGED <<count, limit, ring, queued, shutting_down, has_work, wjob, joined, fgpc,
                   fgjob, fgj, in_destroy, ret, njobs, nshutdown, posted,
                   invoked, returned, fifo>>
    /\ UNCHANGED uxVars

\* pthread_cond_wait(&pool->has_work) may return without a signal.
SpuriousWakeWork ==
    /\ has_work # {}
    /\ \E t \in has_work : has_work' = has_work \ {t}
    /\ UNCHANGED <<count, limit, ring, queued, active, shutting_down, idle,
                   wpc, wjob, joined, fgpc, fgjob, fgj, in_destroy, ret,
                   njobs, nshutdown, posted, invoked, returned, fifo>>
    /\ UNCHANGED uxVars

\* pthread_cond_wait(&pool->idle) may return without a broadcast.
SpuriousWakeIdle ==
    /\ idle # {}
    /\ idle' = {}
    /\ UNCHANGED <<count, limit, ring, queued, active, shutting_down,
                   has_work, wpc, wjob, joined, fgpc, fgjob, fgj, in_destroy,
                   ret, njobs, nshutdown, posted, invoked, returned, fifo>>
    /\ UNCHANGED uxVars

(***************************************************************************)
(* wrk.c: the pool API, called by the client (foreground) thread           *)
(***************************************************************************)
PostRejects_never(sd) == FALSE

\* wrk_pool_post: the shutting_down test made under the lock.
PostRejects(sd) == sd

\* wrk_pool_post, first half: argument check and job_make (outside the lock).
\* A job_t that is freed again by a rejected post gives its identity back.
PostCall(fnok, allocok) ==
    /\ fgpc = "idle"
    /\ njobs < limit
    /\ IF fnok /\ allocok
       THEN /\ fgjob' = njobs + 1
            /\ fgpc' = "post"
            /\ ret' = ret
       ELSE /\ ret' = -1
            /\ UNCHANGED <<fgjob, fgpc>>
    /\ UNCHANGED <<count, limit, ring, queued, active, shutting_down, has_work, idle, wpc,
                   wjob, joined, fgj, in_destroy, njobs, nshutdown, posted,
                   invoked, returned, fifo>>
    /\ UNCHANGED uxVars

\* wrk_pool_post, second half: the critical section.  The value of ring_push
\* is not looked at; the function returns 0 after it.
PostLocked(growok) ==
    /\ fgpc = "post"
    /\ IF PostRejects(shutting_down)
       THEN /\ ret' = -1
            /\ UNCHANGED <<ring, has_work, posted, fifo, njobs>>
       ELSE LET p == ring_push(ring, fgjob, growok)
            IN  /\ ring' = p.ring
                /\ fifo' = IF p.rv = 0 THEN Append(fifo, fgjob) ELSE fifo
                /\ has_work' \in Signal(has_work)
                /\ posted' = posted \cup {fgjob}
                /\ njobs' = njobs + 1
                /\ ret' = 0
    /\ fgpc' = "idle"
    /\ UNCHANGED <<count, limit, queued, active, shutting_down, idle, wpc, wjob, joined,
                   fgjob, fgj, in_destroy, nshutdown, invoked, returned>>
    /\ UNCHANGED uxVars

\* wrk_pool_drain is entered.
DrainCall ==
    /\ fgpc = "idle"
    /\ fgpc' = "drain"
    /\ UNCHANGED <<count, limit, ring, queued, active, shutting_down, has_work, idle, wpc,
                   wjob, joined, fgjob, fgj, in_destroy, ret, njobs,
                   nshutdown, posted, invoked, returned, fifo>>
    /\ UNCHANGED uxVars

\* wrk_pool_drain: the while loop around pthread_cond_wait(&pool->idle).
DrainCheck ==
    /\ fgpc \in {"drain", "drain_wait"}
    /\ Fg \notin idle
    /\ IF queued # 0 \/ active # 0
       THEN /\ idle' = idle \cup {Fg}
            /\ fgpc' = "drain_wait"
            /\ ret' = ret
       ELSE /\ fgpc' = "idle"
            /\ UNCHANGED <<idle, ret>>
    /\ UNCHANGED <<count, limit, ring, queued, active, shutting_down, has_work, wpc, wjob,
                   joined, fgjob, fgj, in_destroy, njobs, nshutdown, posted,
                   invoked, returned, fifo>>
    /\ UNCHANGED uxVars

\* wrk_pool_shutdown is entered, directly or from wrk_pool_destroy.
ShutdownCall(fromDestroy) ==
    /\ fgpc = "idle"
    /\ nshutdown < MaxShutdowns
    /\ nshutdown' = nshutdown + 1
    /\ in_destroy' = fromDestroy
    /\ fgpc' = "shutdown"
    /\ UNCHANGED <<count, limit, ring, queued, active, shutting_down, has_work, idle, wpc,
                   wjob, joined, fgjob, fgj, ret, njobs, posted, invoked,
                   returned, fifo>>
    /\ UNCHANGED uxVars

\* wrk_pool_shutdown: set the flag once and wake every worker.
ShutdownFlag ==
    /\ fgpc = "shutdown"
    /\ IF ~shutting_down
       THEN /\ shutting_down' = TRUE
            /\ has_work' = {}
       ELSE UNCHANGED <<shutting_down, has_work>>
    /\ fgpc' = "join"
    /\ fgj' = 1
    /\ UNCHANGED <<count, limit, ring, queued, active, idle, wpc, wjob, joined, fgjob,
                   in_destroy, ret, njobs, nshutdown, posted, invoked,
                   returned, fifo>>
    /\ UNCHANGED uxVars

JoinReady_nowait(w) == TRUE

\* pthread_join returns once the thread has left wrk_main.
JoinReady(w) == wpc[w] = "exited"

\* the end of the join loop: shutdown returns, or destroy goes on.
AfterJoin(j) ==
    IF j <= count THEN "join"
    ELSE IF in_destroy THEN "destroy" ELSE "idle"

\* wrk_pool_shutdown: pthread_join(pool->threads[i]) on a live thread id.
ShutdownJoin ==
    /\ fgpc = "join"
    /\ fgj \in 1..count
    /\ fgj \notin joined
    /\ JoinReady(fgj)
    /\ joined' = joined \cup {fgj}
    /\ fgj' = fgj + 1
    /\ fgpc' = AfterJoin(fgj + 1)
    /\ UNCHANGED <<count, limit, ring, queued, active, shutting_down, has_work, idle, wpc,
                   wjob, fgjob, in_destroy, ret, njobs, nshutdown, posted, invoked,
                   returned, fifo>>
    /\ UNCHANGED uxVars

\* pthread_join on a thread id that was already joined is undefined: the call
\* may return an error at once, or the process may fault or block for ever.
ShutdownRejoin(outcome) ==
    /\ fgpc = "join"
    /\ fgj \in 1..count
    /\ fgj \in joined
    /\ IF outcome = "error"
       THEN /\ fgj' = fgj + 1
            /\ fgpc' = AfterJoin(fgj + 1)
       ELSE /\ fgpc' = "undefined"
            /\ fgj' = fgj
    /\ UNCHANGED <<count, limit, ring, queued, active, shutting_down, has_work, idle, wpc,
                   wjob, joined, fgjob, in_destroy, ret, njobs, nshutdown, posted,
                   invoked, returned, fifo>>
    /\ UNCHANGED uxVars

\* wrk_pool_destroy: the loop that frees what is left in the queue, then the
\* release of the condition variables, the mutex, the thread array, the pool.
DestroyPop ==
    /\ fgpc = "destroy"
    /\ LET p == ring_pop(ring)
       IN  /\ ring' = p.ring
           /\ fifo' = IF ring.count = 0 THEN fifo ELSE Tail(fifo)
           /\ IF p.item = NULL
              THEN fgpc' = "destroyed"
              ELSE fgpc' = fgpc
    /\ UNCHANGED <<count, limit, ret, queued, active, shutting_down, has_work, idle, wpc, wjob,
                   joined, fgjob, fgj, in_destroy, njobs, nshutdown, posted,
                   invoked, returned>>
    /\ UNCHANGED uxVars

(***************************************************************************)
(* The pool: wrk_pool_create(NumWorkers) has returned.                     *)
(***************************************************************************)
PoolCreated(n, k) ==
    /\ count = n
    /\ limit = k
    /\ ring = ring_init
    /\ queued = 0
    /\ active = 0
    /\ shutting_down = FALSE
    /\ has_work = {}
    /\ idle = {}
    /\ wpc = [w \in Workers |-> IF w <= n THEN "lock" ELSE "none"]
    /\ wjob = [w \in Workers |-> NULL]
    /\ joined = {}
    /\ fgpc = "idle"
    /\ fgjob = NULL
    /\ fgj = 0
    /\ in_destroy = FALSE
    /\ ret = 0
    /\ njobs = 0
    /\ nshutdown = 0
    /\ posted = {}
    /\ invoked = [j \in JobIds |-> 0]
    /\ returned = {}
    /\ fifo = <<>>
    /\ jobarg = [j \in JobIds |-> NULL]
    /\ widx = [w \in Workers |-> 0]
    /\ openk = 0
    /\ g_ctx = NULL
    /\ nopen = 0

\* the presentation model is not in use.
NoModel ==
    /\ instructions = <<>>
    /\ strings = <<>>
    /\ symbols = <<>>
    /\ view_mode = "INSTRUCTIONS"
    /\ selected = 0
    /\ scroll = 0
    /\ cmd = <<>>
    /\ status = [msg |-> "", num |-> 0, text |-> << >>]
    /\ mlock = Unlocked
    /\ uxpc = "none"
    /\ session = NoSession

\* a pool of 1..NumWorkers workers and a client that posts up to MaxPosts jobs.
Init == NoModel /\ NoEmit /\ NoLib /\ \E n \in 1..NumWorkers : PoolCreated(n, MaxPosts)

\* a pool of one worker and a client that posts enough jobs to fill the
\* sixteen slots of the ring and make it grow.
InitRing == NoModel /\ NoEmit /\ NoLib /\ PoolCreated(1, MaxRingPosts)

Worker(w) ==
    \/ WrkWait(w)
    \/ WrkExit(w)
    \/ WrkTake(w)
    \/ WrkCall(w)
    \/ WrkReturn(w)
    \/ WrkDone(w)

Client ==
    \/ \E fnok \in BOOLEAN, allocok \in BOOLEAN : PostCall(fnok, allocok)
    \/ \E growok \in BOOLEAN : PostLocked(growok)
    \/ DrainCall
    \/ DrainCheck
    \/ \E fromDestroy \in BOOLEAN : ShutdownCall(fromDestroy)
    \/ ShutdownFlag
    \/ ShutdownJoin
    \/ \E outcome \in {"error", "fault"} : ShutdownRejoin(outcome)
    \/ DestroyPop

Next ==
    \/ \E w \in 1..count : WrkWait(w)
    \/ \E w \in 1..count : WrkExit(w)
    \/ \E w \in 1..count : WrkTake(w)
    \/ \E w \in 1..count : WrkCall(w)
    \/ \E w \in 1..count : WrkReturn(w)
    \/ \E w \in 1..count : WrkDone(w)
    \/ Client
    \/ SpuriousWakeWork
    \/ SpuriousWakeIdle

Spec == Init /\ [][Next]_vars

SpecRing == InitRing /\ [][Next]_vars

\* the scheduler runs every thread that can run; job functions terminate.
Fairness ==
    /\ \A w \in Workers : WF_vars(Worker(w))
    /\ WF_vars(DrainCheck)

SpecFair == Spec /\ Fairness

(***************************************************************************)
(* ux.c, ui.c: the presentation model, its command interpreter and the     *)
(* disassembly jobs that publish into it.                                  *)
(***************************************************************************)
CmdMax == 255
PageStep == 10

\* the files the user can name: "a", "b" and "c" are ELF files with a .text
\* section, "u" can be opened but emit_load fails on it, every other path
\* cannot be opened (fopen returns NULL).
FileA == 1
FileB == 2
FileU == 3
FileC == 4

FileOf(path) ==
    IF path = <<"a">> THEN FileA
    ELSE IF path = <<"b">> THEN FileB
    ELSE IF path = <<"u">> THEN FileU
    ELSE IF path = <<"c">> THEN FileC
    ELSE NULL

\* emit_scan_text and cs_disasm: per code range of the file, the addresses of
\* the instructions decoded from it.
FileRanges(f) ==
    IF f = FileA THEN << <<16, 19>>, <<26>> >>
    ELSE IF f = FileB THEN << <<8>> >>
    ELSE IF f = FileC THEN << <<32>>, <<48>>, <<64>> >>
    ELSE << >>

\* emit_extract_strings(ctx, 4) and emit_extract_symbols(ctx).
FileStrings(f) ==
    IF f = FileA THEN <<"sA1", "sA2", "sA3">>
    ELSE IF f = FileB THEN <<"sB1">>
    ELSE << >>

FileSymbols(f) ==
    IF f = FileA THEN <<"yA1">>
    ELSE IF f = FileB THEN <<"yB1", "yB2">>
    ELSE << >>

\* the ux_insn_t records of the batch a job publishes.
Batch(j) ==
    LET a == jobarg[j]
        addrs == FileRanges(a.file)[a.range]
    IN  [i \in 1..Len(addrs) |-> [address |-> addrs[i], file |-> a.file]]

\* dyna_push: the realloc is needed when length = capacity (0, 16, 32, ...);
\* when it fails the item is not stored and nothing is reported.
dyna_cap(seq) ==
    IF Len(seq) = 0 THEN 0
    ELSE IF Len(seq) <= 16 THEN 16
    ELSE 32

dyna_push(seq, item, reallocok) ==
    IF Len(seq) = dyna_cap(seq) /\ ~reallocok THEN seq ELSE Append(seq, item)

\* a _foreach loop of dyna_push calls; drop is the number of leading pushes
\* whose realloc failed (only possible while the target is still empty).
PushAll(seq, items, drop) ==
    IF Len(seq) = 0
    THEN SubSeq(items, drop + 1, Len(items))
    ELSE seq \o items

Drops(seq, items) ==
    IF Len(seq) = 0 /\ session.oom THEN 0..Len(items) ELSE {0}

clampi(v, lo, hi) == IF v < lo THEN lo ELSE IF v > hi THEN hi ELSE v

\* string.h
strstr(hay, needle) ==
    \E i \in 1..(Len(hay) - Len(needle) + 1) :
        SubSeq(hay, i, i + Len(needle) - 1) = needle

\* strchr(s, ' '): index of the first blank (0 when there is none), and the
\* text that starts right after it.
strchr_sp(s) ==
    IF \E i \in 1..Len(s) : s[i] = " "
    THEN CHOOSE i \in 1..Len(s) : s[i] = " " /\ \A k \in 1..(i - 1) : s[k] # " "
    ELSE 0

AfterSpace(s) == SubSeq(s, strchr_sp(s) + 1, Len(s))

HexDigits ==
    <<"0", "1", "2", "3", "4", "5", "6", "7", "8", "9",
      "a", "b", "c", "d", "e", "f">>

UpperHex == <<"A", "B", "C", "D", "E", "F">>

\* the value of a character as a digit, -1 when it is none.
DigitVal(c) ==
    IF \E i \in 1..16 : HexDigits[i] = c
    THEN (CHOOSE i \in 1..16 : HexDigits[i] = c) - 1
    ELSE IF \E i \in 1..6 : UpperHex[i] = c
    THEN (CHOOSE i \in 1..6 : UpperHex[i] = c) + 9
    ELSE -1

IsDigit(s, i, base) ==
    i <= Len(s) /\ DigitVal(s[i]) >= 0 /\ DigitVal(s[i]) < base

RECURSIVE SkipBlanks(_, _)
SkipBlanks(s, i) ==
    IF i <= Len(s) /\ s[i] = " " THEN SkipBlanks(s, i + 1) ELSE i

RECURSIVE ParseDigits(_, _, _, _)
ParseDigits(s, i, base, acc) ==
    IF IsDigit(s, i, base)
    THEN ParseDigits(s, i + 1, base, acc * base + DigitVal(s[i]))
    ELSE [val |-> acc, end |-> i]

\* strtoull(address, &end, base): blanks, a sign, for base 16 a 0x prefix
\* that is followed by a hex digit, then digits.  end = 1 means nothing was
\* converted (end == address); huge marks a result wrapped by a minus sign,
\* which lies above every address of the model.
strtoull(s, base) ==
    LET b == SkipBlanks(s, 1)
        sign == b <= Len(s) /\ s[b] \in {"+", "-"}
        g == IF sign THEN b + 1 ELSE b
        pre == /\ base = 16
               /\ g + 1 <= Len(s)
               /\ s[g] = "0"
               /\ s[g + 1] \in {"x", "X"}
               /\ IsDigit(s, g + 2, 16)
        d == IF pre THEN g + 2 ELSE g
        r == ParseDigits(s, d, base, 0)
    IN  IF r.end = d
        THEN [val |-> 0, end |-> 1, huge |-> FALSE]
        ELSE [val |-> r.val, end |-> r.end,
              huge |-> sign /\ s[b] = "-" /\ r.val # 0]

GotoBase(address) ==
    IF /\ Len(address) >= 2
       /\ address[1] = "0"
       /\ address[2] \in {"x", "X"}
    THEN 16 ELSE 10

\* the command words of ux_handle_key.
CmdQuit == <<"q", "u", "i", "t">>
CmdRefresh == <<"r", "e", "f", "r", "e", "s", "h">>
CmdView == <<"v", "i", "e", "w", " ">>
CmdViewStrings == CmdView \o <<"s", "t", "r", "i", "n", "g", "s">>
CmdViewInsns ==
    CmdView \o <<"i", "n", "s", "t", "r", "u", "c", "t", "i", "o", "n", "s">>
CmdViewSymbols == CmdView \o <<"s", "y", "m", "b", "o", "l", "s">>
CmdGoto == <<"g", "o", "t", "o", " ">>
CmdOpen == <<"o", "p", "e", "n", " ">>

\* the sequence shown by a view (draw_list).
Items(v) ==
    IF v = "STRINGS" THEN strings
    ELSE IF v = "SYMBOLS" THEN symbols
    ELSE instructions

ViewName(v) ==
    IF v = "STRINGS" THEN "strings"
    ELSE IF v = "SYMBOLS" THEN "symbols"
    ELSE "instructions"

uxRest == <<jobarg, g_ctx, openk, widx, nopen, session, ctx, ehist, libVars>>

\* draw_list: under the model lock, clamp selected and scroll to the active
\* view and make the selected line visible in a window of inner_h lines.
DrawList ==
    /\ uxpc = "draw"
    /\ mlock = Unlocked
    /\ LET inner_h == session.inner_h
           item_count == Len(Items(view_mode))
           sel == clampi(selected, 0,
                         IF item_count > 0 THEN item_count - 1 ELSE 0)
           sc == clampi(scroll, 0,
                        IF item_count > inner_h
                        THEN item_count - inner_h ELSE 0)
       IN  /\ selected' = sel
           /\ scroll' = IF sel < sc THEN sel
                        ELSE IF sel >= sc + inner_h THEN sel - inner_h + 1
                        ELSE sc
    /\ uxpc' = "getch"
    /\ UNCHANGED <<instructions, strings, symbols, view_mode, cmd, status,
                   mlock>>
    /\ UNCHANGED uxRest
    /\ UNCHANGED poolVars

KeyUp ==
    /\ uxpc = "getch"
    /\ "UP" \in session.keys
    /\ selected' = IF selected > 0 THEN selected - 1 ELSE selected
    /\ uxpc' = "draw"
    /\ UNCHANGED <<instructions, strings, symbols, view_mode, scroll, cmd,
                   status, mlock>>
    /\ UNCHANGED uxRest
    /\ UNCHANGED poolVars

KeyDown ==
    /\ uxpc = "getch"
    /\ "DOWN" \in session.keys
    /\ selected' = IF selected < Len(instructions) - 1
                   THEN selected + 1 ELSE selected
    /\ uxpc' = "draw"
    /\ UNCHANGED <<instructions, strings, symbols, view_mode, scroll, cmd,
                   status, mlock>>
    /\ UNCHANGED uxRest
    /\ UNCHANGED poolVars

KeyPageUp ==
    /\ uxpc = "getch"
    /\ "PPAGE" \in session.keys
    /\ selected' = IF selected - PageStep < 0 THEN 0 ELSE selected - PageStep
    /\ uxpc' = "draw"
    /\ UNCHANGED <<instructions, strings, symbols, view_mode, scroll, cmd,
                   status, mlock>>
    /\ UNCHANGED uxRest
    /\ UNCHANGED poolVars

KeyPageDown ==
    /\ uxpc = "getch"
    /\ "NPAGE" \in session.keys
    /\ selected' = IF selected + PageStep >= Len(instructions)
                   THEN Len(instructions) - 1 ELSE selected + PageStep
    /\ uxpc' = "draw"
    /\ UNCHANGED <<instructions, strings, symbols, view_mode, scroll, cmd,
                   status, mlock>>
    /\ UNCHANGED uxRest
    /\ UNCHANGED poolVars

\* the prefixes of the command lines typed in this run.
Prefixes ==
    UNION {{SubSeq(l, 1, n) : n \in 0..Len(l)} : l \in session.lines}

\* a printable character is appended to the command bar (bounded).
KeyPrintable(c) ==
    /\ uxpc = "getch"
    /\ Append(cmd, c) \in Prefixes
    /\ cmd' = IF Len(cmd) < CmdMax THEN Append(cmd, c) ELSE cmd
    /\ uxpc' = "draw"
    /\ UNCHANGED <<instructions, strings, symbols, view_mode, selected,
                   scroll, status, mlock>>
    /\ UNCHANGED uxRest
    /\ UNCHANGED poolVars

KeyBackspace ==
    /\ uxpc = "getch"
    /\ "BACKSPACE" \in session.keys
    /\ cmd' = IF Len(cmd) > 0 THEN SubSeq(cmd, 1, Len(cmd) - 1) ELSE cmd
    /\ uxpc' = "draw"
    /\ UNCHANGED <<instructions, strings, symbols, view_mode, selected,
                   scroll, status, mlock>>
    /\ UNCHANGED uxRest
    /\ UNCHANGED poolVars

\* the status line: a message, the number it formats and the text it formats.
Status(m, n, t) == [msg |-> m, num |-> n, text |-> t]

IsViewCmd(c) == c \in {CmdViewStrings, CmdViewInsns, CmdViewSymbols}

ViewOfCmd(c) ==
    IF c = CmdViewStrings THEN "STRINGS"
    ELSE IF c = CmdViewSymbols THEN "SYMBOLS"
    ELSE "INSTRUCTIONS"

\* the order in which ux_handle_key tries the commands on Enter.
IsGotoCmd(c) ==
    /\ c \notin {CmdQuit, CmdRefresh}
    /\ ~IsViewCmd(c)
    /\ strstr(c, CmdGoto)

IsOpenCmd(c) ==
    /\ c \notin {CmdQuit, CmdRefresh}
    /\ ~IsViewCmd(c)
    /\ ~strstr(c, CmdGoto)
    /\ strstr(c, CmdOpen)

\* Enter on "quit": the handler returns TUI_ACT_QUIT and ui_run leaves its loop.
EnterQuit ==
    /\ uxpc = "getch"
    /\ cmd = CmdQuit
    /\ uxpc' = "quit"
    /\ UNCHANGED <<instructions, strings, symbols, view_mode, selected,
                   scroll, cmd, status, mlock>>
    /\ UNCHANGED uxRest
    /\ UNCHANGED poolVars

EnterRefresh ==
    /\ uxpc = "getch"
    /\ cmd = CmdRefresh
    /\ cmd' = <<>>
    /\ uxpc' = "draw"
    /\ UNCHANGED <<instructions, strings, symbols, view_mode, selected,
                   scroll, status, mlock>>
    /\ UNCHANGED uxRest
    /\ UNCHANGED poolVars

ui_model_set_view_keep(mode) ==
    /\ mlock = Unlocked
    /\ view_mode' = mode
    /\ selected' = 0
    /\ scroll' = scroll
    /\ status' = Status("switched to %s view", 0, ViewName(mode))
    /\ mlock' = mlock

\* ui_model_set_view: under the model lock.
ui_model_set_view(mode) ==
    /\ mlock = Unlocked
    /\ view_mode' = mode
    /\ selected' = 0
    /\ scroll' = 0
    /\ status' = Status("switched to %s view", 0, ViewName(mode))
    /\ mlock' = mlock

EnterView ==
    /\ uxpc = "getch"
    /\ IsViewCmd(cmd)
    /\ ui_model_set_view(ViewOfCmd(cmd))
    /\ cmd' = <<>>
    /\ uxpc' = "draw"
    /\ UNCHANGED <<instructions, strings, symbols>>
    /\ UNCHANGED uxRest
    /\ UNCHANGED poolVars

RECURSIVE GotoSearch_gt(_, _, _, _, _)
GotoSearch_gt(insns, addr, lo, hi, best) ==
    IF lo > hi THEN best
    ELSE LET mid == lo + ((hi - lo) \div 2)
         IN  IF insns[mid + 1].address > addr
             THEN GotoSearch_gt(insns, addr, lo, mid - 1, mid)
             ELSE GotoSearch_gt(insns, addr, mid + 1, hi, best)

\* the binary search of goto, on 0-based indices.
RECURSIVE GotoSearch(_, _, _, _, _)
GotoSearch(insns, addr, lo, hi, best) ==
    IF lo > hi THEN best
    ELSE LET mid == lo + ((hi - lo) \div 2)
         IN  IF insns[mid + 1].address >= addr
             THEN GotoSearch(insns, addr, lo, mid - 1, mid)
             ELSE GotoSearch(insns, addr, mid + 1, hi, best)

\* what goto does with the text after the first blank: the message it
\* writes and, when accepted, the index it selects.
GotoResult(address) ==
    LET r == strtoull(address, GotoBase(address))
        n == Len(instructions)
    IN  IF n = 0
        THEN [ok |-> FALSE, best |-> 0,
              st |-> Status("no instructions loaded.", 0, <<>>)]
        ELSE IF view_mode # "INSTRUCTIONS"
        THEN [ok |-> FALSE, best |-> 0,
              st |-> Status("must be in instructions view to goto address.",
                            0, <<>>)]
        ELSE IF r.end = 1
        THEN [ok |-> FALSE, best |-> 0,
              st |-> Status("invalid address: %s", 0, address)]
        ELSE IF \/ r.huge
                \/ r.val < instructions[1].address
                \/ r.val > instructions[n].address
        THEN [ok |-> FALSE, best |-> 0,
              st |-> Status("invalid address: %s", 0, address)]
        ELSE [ok |-> TRUE,
              best |-> GotoSearch(instructions, r.val, 0, n - 1, n - 1),
              st |-> Status("goto 0x%llx", r.val, <<>>)]

EnterGoto ==
    /\ uxpc = "getch"
    /\ IsGotoCmd(cmd)
    /\ LET g == GotoResult(AfterSpace(cmd))
       IN  /\ selected' = IF g.ok THEN g.best ELSE selected
           /\ scroll' = IF g.ok THEN g.best ELSE scroll
           /\ status' = g.st
    /\ cmd' = <<>>
    /\ uxpc' = "draw"
    /\ UNCHANGED <<instructions, strings, symbols, view_mode, mlock>>
    /\ UNCHANGED uxRest
    /\ UNCHANGED poolVars

\* any other line, the empty one included.
EnterOther ==
    /\ uxpc = "getch"
    /\ cmd \notin {CmdQuit, CmdRefresh}
    /\ ~IsViewCmd(cmd)
    /\ ~strstr(cmd, CmdGoto)
    /\ ~strstr(cmd, CmdOpen)
    /\ status' = Status("unrecognized command.", 0, <<>>)
    /\ cmd' = <<>>
    /\ uxpc' = "draw"
    /\ UNCHANGED <<instructions, strings, symbols, view_mode, selected,
                   scroll, mlock>>
    /\ UNCHANGED uxRest
    /\ UNCHANGED poolVars

\* open: the fopen test.  A path that cannot be opened only writes the
\* status line and returns; the command buffer keeps its text.
EnterOpen ==
    /\ uxpc = "getch"
    /\ IsOpenCmd(cmd)
    /\ IF FileOf(AfterSpace(cmd)) = NULL
       THEN /\ status' = Status("file could not be found of path: %s", 0,
                                AfterSpace(cmd))
            /\ uxpc' = "draw"
            /\ nopen' = nopen
       ELSE /\ nopen < session.opens
            /\ status' = status
            /\ uxpc' = "open_free"
            /\ nopen' = nopen + 1
    /\ UNCHANGED <<instructions, strings, symbols, view_mode, selected,
                   scroll, cmd, mlock>>
    /\ UNCHANGED <<jobarg, g_ctx, openk, widx, session, ctx, ehist, libVars>>
    /\ UNCHANGED poolVars

\* open: the old instructions, strings and symbols are freed and replaced by
\* empty arrays.  model->lock is not taken; when a worker is inside
\* ui_model_add_insns at that moment it pushes into freed memory, which
\* either goes unnoticed or corrupts the process.
OpenFree(outcome) ==
    /\ uxpc = "open_free"
    /\ instructions' = <<>>
    /\ strings' = <<>>
    /\ symbols' = <<>>
    /\ IF outcome = "fault"
       THEN /\ \E w \in 1..count : wpc[w] = "adding"
            /\ uxpc' = "undefined"
       ELSE uxpc' = "open_load"
    /\ UNCHANGED <<view_mode, selected, scroll, cmd, status, mlock>>
    /\ UNCHANGED uxRest
    /\ UNCHANGED poolVars

\* open: g_ctx = emit_load(filename); emit_scan_text(g_ctx).
OpenLoad ==
    /\ uxpc = "open_load"
    /\ g_ctx' = IF FileOf(AfterSpace(cmd)) \in {FileA, FileB, FileC}
                THEN FileOf(AfterSpace(cmd)) ELSE NULL
    /\ openk' = 1
    /\ uxpc' = "emit"
    /\ UNCHANGED <<instructions, strings, symbols, view_mode, selected,
                   scroll, cmd, status, mlock>>
    /\ UNCHANGED <<jobarg, widx, nopen, session, ctx, ehist, libVars>>
    /\ UNCHANGED poolVars

\* emit_all: disj_post_bytes for the next code range.  A failed allocation
\* ends emit_all; otherwise wrk_pool_post queues the job and signals has_work.
OpenPost(allocok, growok) ==
    /\ uxpc = "emit"
    /\ allocok \/ session.oom
    /\ g_ctx # NULL
    /\ openk <= Len(FileRanges(g_ctx))
    /\ IF ~allocok
       THEN /\ uxpc' = "extract"
            /\ UNCHANGED <<ring, fifo, has_work, posted, njobs, ret, jobarg,
                           openk>>
       ELSE LET job == njobs + 1
                p == ring_push(ring, job, growok)
            IN  /\ jobarg' = [jobarg EXCEPT
                                 ![job] = [file |-> g_ctx, range |-> openk]]
                /\ ring' = p.ring
                /\ fifo' = IF p.rv = 0 THEN Append(fifo, job) ELSE fifo
                /\ has_work' \in Signal(has_work)
                /\ posted' = posted \cup {job}
                /\ njobs' = job
                /\ ret' = 0
                /\ openk' = openk + 1
                /\ uxpc' = uxpc
    /\ UNCHANGED <<instructions, strings, symbols, view_mode, selected,
                   scroll, cmd, status, mlock>>
    /\ UNCHANGED <<g_ctx, widx, nopen, session, ctx, ehist, libVars>>
    /\ UNCHANGED <<count, limit, queued, active, shutting_down, idle, wpc,
                   wjob, joined, fgpc, fgjob, fgj, in_destroy, nshutdown,
                   invoked, returned>>

\* emit_all returns: every range was posted, or there is no context.
OpenEmitted ==
    /\ uxpc = "emit"
    /\ g_ctx = NULL \/ openk > Len(FileRanges(g_ctx))
    /\ uxpc' = "extract"
    /\ UNCHANGED <<instructions, strings, symbols, view_mode, selected,
                   scroll, cmd, status, mlock>>
    /\ UNCHANGED uxRest
    /\ UNCHANGED poolVars

\* emit_extract_strings(g_ctx, 4) and ui_model_add_strings, up to the last
\* dyna_push.  emit_extract_strings reads ctx->elf without a test, so a
\* failed emit_load ends here in a null dereference: the process faults, or
\* the read goes unnoticed and no string is found.
OpenStrings(outcome) ==
    /\ uxpc = "extract"
    /\ IF g_ctx = NULL /\ outcome = "fault"
       THEN /\ uxpc' = "undefined"
            /\ UNCHANGED <<strings, mlock>>
       ELSE /\ mlock = Unlocked
            /\ mlock' = Fg
            /\ \E drop \in Drops(strings, FileStrings(g_ctx)) :
                   strings' = PushAll(strings, FileStrings(g_ctx), drop)
            /\ uxpc' = "strings"
    /\ UNCHANGED <<instructions, symbols, view_mode, selected, scroll, cmd,
                   status>>
    /\ UNCHANGED uxRest
    /\ UNCHANGED poolVars

\* ui_model_add_strings: pthread_mutex_unlock.
OpenStringsUnlock ==
    /\ uxpc = "strings"
    /\ mlock' = Unlocked
    /\ uxpc' = "extracted"
    /\ UNCHANGED <<instructions, strings, symbols, view_mode, selected,
                   scroll, cmd, status>>
    /\ UNCHANGED uxRest
    /\ UNCHANGED poolVars

\* emit_extract_symbols(g_ctx) and ui_model_add_symbols, up to the last
\* dyna_push.
OpenSymbols ==
    /\ uxpc = "extracted"
    /\ mlock = Unlocked
    /\ mlock' = Fg
    /\ \E drop \in Drops(symbols, FileSymbols(g_ctx)) :
           symbols' = PushAll(symbols, FileSymbols(g_ctx), drop)
    /\ uxpc' = "symbols"
    /\ UNCHANGED <<instructions, strings, view_mode, selected, scroll, cmd,
                   status>>
    /\ UNCHANGED uxRest
    /\ UNCHANGED poolVars

\* ui_model_add_symbols unlocks; open writes the success status, clears the
\* command buffer and returns TUI_ACT_OPEN.
OpenFinish ==
    /\ uxpc = "symbols"
    /\ mlock' = Unlocked
    /\ status' = Status("successfully disassembled: %s", 0, AfterSpace(cmd))
    /\ cmd' = <<>>
    /\ uxpc' = "draw"
    /\ UNCHANGED <<instructions, strings, symbols, view_mode, selected,
                   scroll>>
    /\ UNCHANGED uxRest
    /\ UNCHANGED poolVars

JobLock_nolock(w) ==
    /\ wpc[w] = "infn"
    /\ mlock' = w
    /\ widx' = [widx EXCEPT ![w] = 1]
    /\ wpc' = [wpc EXCEPT ![w] = "adding"]
    /\ UNCHANGED <<instructions, strings, symbols, view_mode, selected,
                   scroll, cmd, status, uxpc>>
    /\ UNCHANGED <<jobarg, g_ctx, openk, nopen, session, ctx, ehist, libVars>>
    /\ UNCHANGED <<count, limit, ring, queued, active, shutting_down,
                   has_work, idle, wjob, joined, fgpc, fgjob, fgj,
                   in_destroy, ret, njobs, nshutdown, posted, invoked,
                   returned, fifo>>

\* disj_run_bytes decodes its range and calls ux_post, which enters
\* ui_model_add_insns: pthread_mutex_lock(&model->lock).
JobLock(w) ==
    /\ wpc[w] = "infn"
    /\ mlock = Unlocked
    /\ mlock' = w
    /\ widx' = [widx EXCEPT ![w] = 1]
    /\ wpc' = [wpc EXCEPT ![w] = "adding"]
    /\ UNCHANGED <<instructions, strings, symbols, view_mode, selected,
                   scroll, cmd, status, uxpc>>
    /\ UNCHANGED <<jobarg, g_ctx, openk, nopen, session, ctx, ehist, libVars>>
    /\ UNCHANGED <<count, limit, ring, queued, active, shutting_down,
                   has_work, idle, wjob, joined, fgpc, fgjob, fgj,
                   in_destroy, ret, njobs, nshutdown, posted, invoked,
                   returned, fifo>>

\* ui_model_add_insns: one dyna_push(model->instructions, insn).
JobPush(w, reallocok) ==
    /\ wpc[w] = "adding"
    /\ reallocok \/ session.oom
    /\ widx[w] <= Len(Batch(wjob[w]))
    /\ instructions' =
           dyna_push(instructions, Batch(wjob[w])[widx[w]], reallocok)
    /\ widx' = [widx EXCEPT ![w] = @ + 1]
    /\ UNCHANGED <<strings, symbols, view_mode, selected, scroll, cmd,
                   status, mlock, uxpc>>
    /\ UNCHANGED <<jobarg, g_ctx, openk, nopen, session, ctx, ehist, libVars>>
    /\ UNCHANGED poolVars

\* ui_model_add_insns unlocks, ux_post and disj_run_bytes return, and
\* wrk_main frees the job.
JobUnlock(w) ==
    /\ wpc[w] = "adding"
    /\ widx[w] > Len(Batch(wjob[w]))
    /\ mlock' = Unlocked
    /\ widx' = [widx EXCEPT ![w] = 0]
    /\ returned' = returned \cup {wjob[w]}
    /\ wjob' = [wjob EXCEPT ![w] = NULL]
    /\ wpc' = [wpc EXCEPT ![w] = "done"]
    /\ UNCHANGED <<instructions, strings, symbols, view_mode, selected,
                   scroll, cmd, status, uxpc>>
    /\ UNCHANGED <<jobarg, g_ctx, openk, nopen, session, ctx, ehist, libVars>>
    /\ UNCHANGED <<count, limit, ring, queued, active, shutting_down,
                   has_work, idle, joined, fgpc, fgjob, fgj, in_destroy,
                   ret, njobs, nshutdown, posted, invoked, fifo>>

\* the command lines of a session.
LineOpenA == CmdOpen \o <<"a">>
LineOpenB == CmdOpen \o <<"b">>
LineOpenN == CmdOpen \o <<"n">>
LineOpenU == CmdOpen \o <<"u">>
LineGoto17 == CmdGoto \o <<"1", "7">>
LineGotoHex == CmdGoto \o <<"0", "x", "1", "a">>
LineGoto9 == CmdGoto \o <<"9">>
LineOpenC == CmdOpen \o <<"c">>
LineGoto48 == CmdGoto \o <<"4", "8">>
LineGoto17g == CmdGoto \o <<"1", "7", "g">>
LineGGoto17 == <<"g">> \o CmdGoto \o <<"1", "7">>

\* the sessions checked.
NavKeys == {"UP", "DOWN", "PPAGE", "NPAGE"}

Sessions ==
    { Session({LineOpenA, LineOpenB}, {}, NumWorkers, 1, FALSE, 2),
      Session({LineOpenA, CmdViewStrings, CmdViewInsns},
              NavKeys \cup {"BACKSPACE"}, 1, MaxInnerH, FALSE, 1),
      Session({LineOpenA, LineGoto17, LineGotoHex, LineGoto9}, {}, 1, 1,
              FALSE, 1),
      Session({LineOpenN, LineOpenU, CmdViewSymbols, CmdQuit, CmdRefresh},
              {"BACKSPACE"}, 1, 1, FALSE, 1),
      Session({LineOpenA}, {}, 1, 1, TRUE, 1),
      Session({LineOpenC, LineGoto48}, {}, NumWorkers, 1, FALSE, 1) }

\* the printable characters the user types in a session.
Chars == UNION {{l[i] : i \in 1..Len(l)} : l \in session.lines}

\* main: ux_init, ui_model_create, ui_run is about to draw for the first time.
InitUx ==
    /\ session \in Sessions
    /\ PoolCreated(session.workers, 0)
    /\ instructions = <<>>
    /\ strings = <<>>
    /\ symbols = <<>>
    /\ view_mode = "INSTRUCTIONS"
    /\ selected = 0
    /\ scroll = 0
    /\ cmd = <<>>
    /\ status = Status("", 0, <<>>)
    /\ mlock = Unlocked
    /\ uxpc = "draw"
    /\ NoEmit
    /\ NoLib

NextUx ==
    \/ DrawList
    \/ KeyUp
    \/ KeyDown
    \/ KeyPageUp
    \/ KeyPageDown
    \/ \E c \in Chars : KeyPrintable(c)
    \/ KeyBackspace
    \/ EnterQuit
    \/ EnterRefresh
    \/ EnterView
    \/ EnterGoto
    \/ EnterOther
    \/ EnterOpen
    \/ \E outcome \in {"ok", "fault"} : OpenFree(outcome)
    \/ OpenLoad
    \/ \E allocok \in BOOLEAN, growok \in BOOLEAN : OpenPost(allocok, growok)
    \/ OpenEmitted
    \/ \E outcome \in {"ok", "fault"} : OpenStrings(outcome)
    \/ OpenStringsUnlock
    \/ OpenSymbols
    \/ OpenFinish
    \/ \E w \in 1..count : WrkWait(w)
    \/ \E w \in 1..count : WrkTake(w)
    \/ \E w \in 1..count : WrkCall(w)
    \/ \E w \in 1..count : JobLock(w)
    \/ \E w \in 1..count : \E reallocok \in BOOLEAN : JobPush(w, reallocok)
    \/ \E w \in 1..count : JobUnlock(w)
    \/ \E w \in 1..count : WrkDone(w)
    \/ SpuriousWakeWork

SpecUx == InitUx /\ [][NextUx]_vars

\* two workers and one user who opens the same file once or twice, so that
\* the two batches of the file are published side by side.
InitBatch ==
    /\ session = Session({LineOpenA}, {}, 2, 1, FALSE, 2)
    /\ PoolCreated(session.workers, 0)
    /\ instructions = <<>>
    /\ strings = <<>>
    /\ symbols = <<>>
    /\ view_mode = "INSTRUCTIONS"
    /\ selected = 0
    /\ scroll = 0
    /\ cmd = <<>>
    /\ status = Status("", 0, <<>>)
    /\ mlock = Unlocked
    /\ uxpc = "draw"
    /\ NoEmit
    /\ NoLib

\* the user types the open line and presses enter; the workers run the jobs.
NextBatch ==
    \/ DrawList
    \/ \E c \in Chars : KeyPrintable(c)
    \/ EnterOther
    \/ EnterOpen
    \/ \E outcome \in {"ok", "fault"} : OpenFree(outcome)
    \/ OpenLoad
    \/ \E allocok \in BOOLEAN, growok \in BOOLEAN : OpenPost(allocok, growok)
    \/ OpenEmitted
    \/ \E outcome \in {"ok", "fault"} : OpenStrings(outcome)
    \/ OpenStringsUnlock
    \/ OpenSymbols
    \/ OpenFinish
    \/ \E w \in 1..count : WrkWait(w)
    \/ \E w \in 1..count : WrkTake(w)
    \/ \E w \in 1..count : WrkCall(w)
    \/ \E w \in 1..count : JobLock(w)
    \/ \E w \in 1..count : \E reallocok \in BOOLEAN : JobPush(w, reallocok)
    \/ \E w \in 1..count : JobUnlock(w)
    \/ \E w \in 1..count : WrkDone(w)
    \/ SpuriousWakeWork

SpecBatch == InitBatch /\ [][NextBatch]_vars

\* goto as a function of the instruction list: the model holds an arbitrary
\* list of up to MaxInsns instructions (batches of one instruction each,
\* published in any order) and the user types goto lines.
GotoAddrs == {16, 19, 26}

RECURSIVE SeqsUpTo(_, _)
SeqsUpTo(S, n) ==
    IF n = 0 THEN {<<>>}
    ELSE LET shorter == SeqsUpTo(S, n - 1)
         IN  shorter \cup {Append(q, x) : q \in shorter, x \in S}

InsnLists ==
    SeqsUpTo({[address |-> a, file |-> FileA] : a \in GotoAddrs}, MaxInsns)

GotoSession ==
    Session({LineGoto17, LineGotoHex, LineGoto9, LineGoto17g, LineGGoto17},
            {"DOWN"}, 1, 1, FALSE, 0)

InitGoto ==
    /\ session = GotoSession
    /\ PoolCreated(session.workers, 0)
    /\ instructions \in InsnLists
    /\ strings = FileStrings(FileA)
    /\ symbols = FileSymbols(FileA)
    /\ view_mode \in {"INSTRUCTIONS", "STRINGS"}
    /\ selected = 0
    /\ scroll = 0
    /\ cmd = <<>>
    /\ status = Status("", 0, <<>>)
    /\ mlock = Unlocked
    /\ uxpc = "draw"
    /\ NoEmit
    /\ NoLib

NextGoto ==
    \/ DrawList
    \/ KeyDown
    \/ \E c \in Chars : KeyPrintable(c)
    \/ EnterGoto
    \/ EnterOther

SpecGoto == InitGoto /\ [][NextGoto]_vars

(***************************************************************************)
(* emit.c: the scanner of the .text bytes                                  *)
(***************************************************************************)
is_padding(byte) == byte = 0 \/ byte = 144 \/ byte = 204

\* the loop of is_padding_run; data is 1-indexed here, i and count are the
\* loop variables of the source.
RECURSIVE is_padding_loop(_, _, _, _, _)
is_padding_loop(data, i, length, min_run, cnt) ==
    IF i >= length THEN FALSE
    ELSE LET c == IF is_padding(data[i + 1]) THEN cnt + 1 ELSE 0
         IN  IF c >= min_run THEN TRUE
             ELSE is_padding_loop(data, i + 1, length, min_run, c)

is_padding_run(data, length, min_run) ==
    is_padding_loop(data, 0, length, min_run, 0)

\* the inner loop of emit_scan_text without its look-ahead.
RECURSIVE scan_end_nolook(_, _)
scan_end_nolook(text, i) ==
    IF i >= Len(text) THEN i ELSE scan_end_nolook(text, i + 1)

\* the inner loop of emit_scan_text: i advances until sixteen padding bytes
\* lie ahead of it or the text ends.
RECURSIVE scan_end(_, _)
scan_end(text, i) ==
    IF i >= Len(text) THEN i
    ELSE IF i + 16 <= Len(text)
            /\ is_padding_run(SubSeq(text, i + 1, Len(text)), 16, 16)
         THEN i
         ELSE scan_end(text, i + 1)

code_range_novaddr(vaddr, start, length) ==
    [vaddr |-> start, offset |-> start, length |-> length]

\* the code_range_t that emit_scan_text fills in.
code_range(vaddr, start, length) ==
    [vaddr |-> vaddr + start, offset |-> start, length |-> length]

\* the outer loop of emit_scan_text, from offset i on; ranges is
\* ctx->code_ranges.  The record allocation and the growth of the sequence
\* are taken to succeed.
RECURSIVE scan_from(_, _, _, _)
scan_from(text, vaddr, i, ranges) ==
    IF i >= Len(text) THEN ranges
    ELSE IF is_padding(text[i + 1])
         THEN scan_from(text, vaddr, i + 1, ranges)
         ELSE LET e == scan_end(text, i)
                  length == e - i
              IN  scan_from(text, vaddr, e,
                            IF length > 0
                            THEN dyna_push(ranges,
                                           code_range(vaddr, i, length), TRUE)
                            ELSE ranges)

\* emit_scan_text(ctx).
EmitScanText ==
    /\ ehist.scans < MaxScans
    /\ IF ~ctx.valid
       THEN /\ ctx' = ctx
            /\ ehist' = [ehist EXCEPT !.scans = @ + 1, !.scan_rv = -1]
       ELSE /\ ctx' = [ctx EXCEPT
                          !.code_ranges =
                              scan_from(ctx.text_data, ctx.text_vaddr, 0, @)]
            /\ ehist' = [ehist EXCEPT !.scans = @ + 1, !.scan_rv = 0]
    /\ UNCHANGED <<jobarg, instructions, strings, symbols, view_mode,
                   selected, scroll, cmd, status, mlock, uxpc, g_ctx, openk,
                   widx, nopen, session, libVars>>
    /\ UNCHANGED poolVars

\* disj_post_bytes: the post fails when the window is empty, when one of its
\* allocations fails or when the pool rejects the job.  A window whose end
\* lies before its start has a length that wraps around; it is kept here as
\* a length below zero, and its malloc fails.
post_fails(length, allocok, sd) == length <= 0 \/ ~allocok \/ PostRejects(sd)

RECURSIVE emit_range_from_noclip(_, _, _, _, _, _)
emit_range_from_noclip(c, k, vs, ve, failat, jobs) ==
    IF k > Len(c.code_ranges)
    THEN [rv |-> IF Len(jobs) > 0 THEN 0 ELSE -1, jobs |-> jobs]
    ELSE LET r == c.code_ranges[k]
             range_end == r.vaddr + r.length
             job_vaddr == IF r.vaddr > vs THEN r.vaddr ELSE vs
             job == [vaddr |-> job_vaddr, offset |-> job_vaddr - c.text_vaddr,
                     length |-> range_end - job_vaddr]
         IN  IF r.vaddr >= ve \/ range_end <= vs
             THEN emit_range_from_noclip(c, k + 1, vs, ve, failat, jobs)
             ELSE IF post_fails(job.length, Len(jobs) + 1 # failat,
                                shutting_down)
                  THEN [rv |-> -1, jobs |-> jobs]
                  ELSE emit_range_from_noclip(c, k + 1, vs, ve, failat,
                                              Append(jobs, job))

\* the _foreach loop of emit_range from the k-th code range on; jobs are the
\* windows posted so far and failat is the post whose allocation fails
\* (0: none).
RECURSIVE emit_range_from(_, _, _, _, _, _)
emit_range_from(c, k, vs, ve, failat, jobs) ==
    IF k > Len(c.code_ranges)
    THEN [rv |-> IF Len(jobs) > 0 THEN 0 ELSE -1, jobs |-> jobs]
    ELSE LET r == c.code_ranges[k]
             range_end == r.vaddr + r.length
             job_vaddr == IF r.vaddr > vs THEN r.vaddr ELSE vs
             job_end == IF range_end < ve THEN range_end ELSE ve
             job == [vaddr |-> job_vaddr, offset |-> job_vaddr - c.text_vaddr,
                     length |-> job_end - job_vaddr]
         IN  IF r.vaddr >= ve \/ range_end <= vs
             THEN emit_range_from(c, k + 1, vs, ve, failat, jobs)
             ELSE IF post_fails(job.length, Len(jobs) + 1 # failat,
                                shutting_down)
                  THEN [rv |-> -1, jobs |-> jobs]
                  ELSE emit_range_from(c, k + 1, vs, ve, failat,
                                       Append(jobs, job))

\* the ring after the jobs first, first + 1, ... of a sequence of n posts.
RECURSIVE PushJobs(_, _, _)
PushJobs(r, first, n) ==
    IF n = 0 THEN r
    ELSE PushJobs(ring_push(r, first, TRUE).ring, first + 1, n - 1)

\* emit_range(ctx, pool, vs, ve): every successful post puts one job on the
\* queue of the pool.
EmitRange(vs, ve, failat) ==
    /\ ehist.calls < MaxCalls
    /\ LET res == IF ~ctx.valid
                  THEN [rv |-> -1, jobs |-> <<>>]
                  ELSE emit_range_from(ctx, 1, vs, ve, failat, <<>>)
           n == Len(res.jobs)
       IN  /\ ehist' = [ehist EXCEPT !.calls = @ + 1, !.range_rv = res.rv,
                                     !.posted = n]
           /\ ring' = PushJobs(ring, njobs + 1, n)
           /\ fifo' = fifo \o [i \in 1..n |-> njobs + i]
           /\ posted' = posted \cup {njobs + i : i \in 1..n}
           /\ jobarg' = [j \in JobIds |->
                           IF j \in (njobs + 1)..(njobs + n)
                           THEN res.jobs[j - njobs] ELSE jobarg[j]]
           /\ njobs' = njobs + n
           /\ has_work' \in Signal(has_work)
           /\ ret' = IF n > 0 THEN 0 ELSE ret
           /\ libret' = [call |-> "range", vs |-> vs, ve |-> ve,
                         failat |-> failat, jobs |-> res.jobs]
    /\ UNCHANGED <<file, elf, dyna, disj>>
    /\ UNCHANGED <<instructions, strings, symbols, view_mode, selected,
                   scroll, cmd, status, mlock, uxpc, g_ctx, openk, widx,
                   nopen, session, ctx>>
    /\ UNCHANGED <<count, limit, queued, active, shutting_down, idle, wpc,
                   wjob, joined, fgpc, fgjob, fgj, in_destroy, nshutdown,
                   invoked, returned>>

\* the windows asked for: before, inside and beyond the text, and windows
\* whose end is not after their start.
Windows ==
    {<<vs, ve>> : vs \in {0, TextVaddr + 1, TextVaddr + 20},
                  ve \in {TextVaddr + 1, TextVaddr + 19, TextVaddr + 200}}

\* the .text sections of the runs: up to MaxBlocks blocks, each the code
\* bytes 48 C3, one padding byte, or a run of fifteen or sixteen padding
\* bytes.
Code == <<72, 195>>
Pad15 == [i \in 1..15 |-> IF i % 3 = 0 THEN 204 ELSE IF i % 3 = 1 THEN 144 ELSE 0]
Pad16 == Pad15 \o <<144>>
Blocks == {Code, <<144>>, <<0>>, Pad15, Pad16}

RECURSIVE Flatten(_)
Flatten(bs) == IF bs = <<>> THEN <<>> ELSE Head(bs) \o Flatten(Tail(bs))

Texts == {Flatten(bs) : bs \in SeqsUpTo(Blocks, MaxBlocks)}

\* emit_load has returned: a context whose code-range sequence is empty, or
\* 0x0; the pool has one worker, which has not run yet.
InitEmit ==
    /\ NoModel
    /\ PoolCreated(1, 0)
    /\ \/ \E t \in Texts : ctx = EmitCtx(TRUE, t, TextVaddr)
       \/ ctx = EmitCtx(FALSE, <<>>, 0)
    /\ ehist = NoCalls
    /\ NoLib

\* the scanner alone: emit_scan_text is called up to MaxScans times.
NextScan == EmitScanText

SpecScan == InitEmit /\ [][NextScan]_vars

\* the scanner and the job emitter.
NextEmit ==
    \/ EmitScanText
    \/ \E w \in Windows, failat \in 0..MaxFailAt : EmitRange(w[1], w[2], failat)

SpecEmit == InitEmit /\ [][NextEmit]_vars

\* emit_range alone, every allocation succeeding: texts of up to three
\* blocks, and windows that lie before a range, cut it, cover it, are empty
\* (vs = ve) or end before they start.
RangeTexts == {Flatten(bs) : bs \in SeqsUpTo(Blocks \ {Pad15}, 3)}

RangeWindows ==
    {<<vs, ve>> : vs \in {0, TextVaddr + 1, TextVaddr + 3, TextVaddr + 18},
                  ve \in {TextVaddr, TextVaddr + 1, TextVaddr + 2,
                          TextVaddr + 19, TextVaddr + 200}}

InitRange ==
    /\ NoModel
    /\ PoolCreated(1, 0)
    /\ \/ \E t \in RangeTexts : ctx = EmitCtx(TRUE, t, TextVaddr)
       \/ ctx = EmitCtx(FALSE, <<>>, 0)
    /\ ehist = NoCalls
    /\ NoLib

NextRange ==
    \/ EmitScanText
    \/ \E w \in RangeWindows : EmitRange(w[1], w[2], 0)

SpecRange == InitRange /\ [][NextRange]_vars

(***************************************************************************)
(* elfx.c and emit.c: section names and the string extractor               *)
(***************************************************************************)
\* a section header as elf_parse fills it in; name is an offset into the
\* section-header string table, offset names the stretch of the file that
\* holds the section.
Shdr(name, type, offset, size, link, entsize) ==
    [name |-> name, type |-> type, offset |-> offset, size |-> size,
     link |-> link, entsize |-> entsize]

elf_shdr_name_nomemchr(e, shdr) ==
    IF e.null \/ ~e.has_shstrtab THEN [none |-> TRUE, s |-> <<>>]
    ELSE IF shdr.name >= Len(e.shstrtab) THEN [none |-> TRUE, s |-> <<>>]
    ELSE LET nuls == {i \in (shdr.name + 1)..Len(e.shstrtab) :
                         e.shstrtab[i] = 0} \cup {Len(e.shstrtab) + 1}
         IN  [none |-> FALSE,
              s |-> SubSeq(e.shstrtab, shdr.name + 1,
                           (CHOOSE i \in nuls : \A m \in nuls : i <= m) - 1)]

\* elf_shdr_name: the bytes from shdr->name up to the first NUL of the
\* table, or none.
elf_shdr_name(e, shdr) ==
    IF e.null \/ ~e.has_shstrtab THEN [none |-> TRUE, s |-> <<>>]
    ELSE IF shdr.name >= Len(e.shstrtab) THEN [none |-> TRUE, s |-> <<>>]
    ELSE LET nuls == {i \in (shdr.name + 1)..Len(e.shstrtab) :
                         e.shstrtab[i] = 0}
         IN  IF nuls = {} THEN [none |-> TRUE, s |-> <<>>]
             ELSE [none |-> FALSE,
                   s |-> SubSeq(e.shstrtab, shdr.name + 1,
                                (CHOOSE i \in nuls : \A m \in nuls : i <= m) - 1)]

\* fopen, fseek and fread of header->size bytes at header->offset.
fread(f, header) ==
    IF f.null \/ header.offset \notin DOMAIN f.at THEN <<>>
    ELSE SubSeq(f.at[header.offset], 1,
                IF header.size <= Len(f.at[header.offset])
                THEN header.size ELSE Len(f.at[header.offset]))

is_printable_wide(c) == c >= 32 /\ c <= 127

is_printable(c) == c >= 32 /\ c <= 126

is_valid_string(str) ==
    LET len == Len(str)
        alnum_count ==
            Cardinality({i \in 1..len :
                            \/ str[i] >= 65 /\ str[i] <= 90
                            \/ str[i] >= 97 /\ str[i] <= 122
                            \/ str[i] >= 48 /\ str[i] <= 57})
        space_count == Cardinality({i \in 1..len : str[i] = 32})
    IN  len # 0 /\ alnum_count * 2 >= len /\ space_count < len

\* the loop over the bytes of one section in emit_extract_strings; j,
\* str_start and in_string are the loop variables of the source.
RECURSIVE extract_loop(_, _, _, _, _, _)
extract_loop(data, j, str_start, in_string, min_len, strs) ==
    IF j >= Len(data) THEN strs
    ELSE IF is_printable(data[j + 1]) /\ data[j + 1] # 0
         THEN extract_loop(data, j + 1, IF in_string THEN str_start ELSE j,
                           TRUE, min_len, strs)
         ELSE LET len == j - str_start
                  str == SubSeq(data, str_start + 1, j)
              IN  extract_loop(data, j + 1, str_start, FALSE, min_len,
                               IF in_string /\ len >= min_len
                                  /\ is_valid_string(str)
                               THEN dyna_push(strs, str, TRUE)
                               ELSE strs)

\* the names of the sections that emit_extract_strings scans:
\* .rodata, .data, .dynstr, .strtab.
section_names ==
    {<<46, 114, 111, 100, 97, 116, 97>>, <<46, 100, 97, 116, 97>>,
     <<46, 100, 121, 110, 115, 116, 114>>, <<46, 115, 116, 114, 116, 97, 98>>}

\* whether emit_extract_strings scans the section of this header.
scanned(e, f, header) ==
    /\ ~elf_shdr_name(e, header).none
    /\ elf_shdr_name(e, header).s \in section_names
    /\ header.size # 0
    /\ ~f.null
    /\ Len(fread(f, header)) = header.size

\* the _foreach loop of emit_extract_strings from the k-th header on.
RECURSIVE emit_extract_strings(_, _, _, _, _)
emit_extract_strings(e, f, min_len, k, strs) ==
    IF k > Len(e.shdrs) THEN strs
    ELSE emit_extract_strings(e, f, min_len, k + 1,
             IF scanned(e, f, e.shdrs[k])
             THEN extract_loop(fread(f, e.shdrs[k]), 0, 0, FALSE, min_len, strs)
             ELSE strs)

\* emit_extract_strings(ctx, min_len) on the context of a parsed file.
EmitExtractStrings(min_len) ==
    /\ libret.call = "none"
    /\ ~elf.null
    /\ libret' = [call |-> "strings", min_len |-> min_len,
                  out |-> emit_extract_strings(elf, file, min_len, 1, <<>>)]
    /\ UNCHANGED <<file, elf, dyna, disj>>
    /\ UNCHANGED <<jobarg, instructions, strings, symbols, view_mode,
                   selected, scroll, cmd, status, mlock, uxpc, g_ctx, openk,
                   widx, nopen, session, ctx, ehist>>
    /\ UNCHANGED poolVars

\* is_valid_strtab_off: the offset lies in the table and a NUL follows it.
is_valid_strtab_off(strtab, off) ==
    /\ Len(strtab) # 0
    /\ off < Len(strtab)
    /\ \E i \in (off + 1)..Len(strtab) : strtab[i] = 0

\* strnlen(sym_name, strhdr->size - s->name) and the memcpy of the name.
sym_name(strtab, off) ==
    LET nuls == {i \in (off + 1)..Len(strtab) : strtab[i] = 0}
        end == IF nuls = {} THEN Len(strtab) + 1
               ELSE CHOOSE i \in nuls : \A m \in nuls : i <= m
    IN  SubSeq(strtab, off + 1, end - 1)

sym_skipped_never(strtab, s) == FALSE

\* the tests of the entry loop that skip an entry.
sym_skipped(strtab, s) ==
    \/ s.name = 0
    \/ ~is_valid_strtab_off(strtab, s.name)
    \/ strtab[s.name + 1] = 0

\* the entry loop of emit_extract_symbols over the first count entries.
RECURSIVE sym_loop(_, _, _, _, _)
sym_loop(entries, strtab, i, cnt, syms) ==
    IF i >= cnt THEN syms
    ELSE LET s == entries[i + 1]
         IN  sym_loop(entries, strtab, i + 1, cnt,
                 IF sym_skipped(strtab, s) THEN syms
                 ELSE dyna_push(syms, [name |-> sym_name(strtab, s.name),
                                       value |-> s.value], TRUE))

\* sizeof(elf32_sym_t), sizeof(elf64_sym_t).
sym_size(class) == IF class = 1 THEN 16 ELSE 24

\* the string table that sh_link of a symbol table names, when the table is
\* one that emit_extract_symbols reads: .symtab or .dynsym, not empty,
\* linked to a STRTAB section that is not empty, both read in full.
sym_table(e, f, symhdr) ==
    LET name == elf_shdr_name(e, symhdr)
        strhdr == e.shdrs[symhdr.link + 1]
        entsize == IF symhdr.entsize # 0 THEN symhdr.entsize
                   ELSE sym_size(e.class)
        ok == /\ ~name.none
              /\ name.s \in {<<46, 115, 121, 109, 116, 97, 98>>,
                             <<46, 100, 121, 110, 115, 121, 109>>}
              /\ symhdr.size # 0
              /\ symhdr.link < Len(e.shdrs)
              /\ strhdr.size # 0
              /\ strhdr.type = 3
              /\ ~f.null
              /\ symhdr.size <= Len(f.at[symhdr.offset]) * sym_size(e.class)
              /\ Len(fread(f, strhdr)) = strhdr.size
    IN  [ok |-> ok,
         strtab |-> IF ok THEN fread(f, strhdr) ELSE <<>>,
         cnt |-> IF ok THEN symhdr.size \div entsize ELSE 0]

\* the _foreach loop of emit_extract_symbols from the k-th header on.
RECURSIVE emit_extract_symbols(_, _, _, _)
emit_extract_symbols(e, f, k, syms) ==
    IF k > Len(e.shdrs) THEN syms
    ELSE LET t == sym_table(e, f, e.shdrs[k])
         IN  emit_extract_symbols(e, f, k + 1,
                 IF t.ok
                 THEN sym_loop(f.at[e.shdrs[k].offset], t.strtab, 0, t.cnt, syms)
                 ELSE syms)

\* emit_extract_symbols(ctx) on the context of a parsed file.
EmitExtractSymbols ==
    /\ libret.call = "none"
    /\ ~elf.null
    /\ libret' = [call |-> "symbols",
                  out |-> emit_extract_symbols(elf, file, 1, <<>>)]
    /\ UNCHANGED <<file, elf, dyna, disj>>
    /\ UNCHANGED <<jobarg, instructions, strings, symbols, view_mode,
                   selected, scroll, cmd, status, mlock, uxpc, g_ctx, openk,
                   widx, nopen, session, ctx, ehist>>
    /\ UNCHANGED poolVars

\* elf_shdr_name(elf, shdr) for the k-th section header of a parsed file.
ShdrName(k) ==
    /\ libret.call = "none"
    /\ ~elf.null
    /\ k \in 1..Len(elf.shdrs)
    /\ libret' = [call |-> "name", k |-> k,
                  out |-> elf_shdr_name(elf, elf.shdrs[k])]
    /\ UNCHANGED <<file, elf, dyna, disj>>
    /\ UNCHANGED <<jobarg, instructions, strings, symbols, view_mode,
                   selected, scroll, cmd, status, mlock, uxpc, g_ctx, openk,
                   widx, nopen, session, ctx, ehist>>
    /\ UNCHANGED poolVars

\* the section-header string table of the files:
\* \0 .data \0 .text \0 .rodata \0 .symtab \0 .dynsym \0 .dyn, the last
\* name without its NUL.
ShStrTab ==
    <<0>> \o <<46, 100, 97, 116, 97, 0>> \o <<46, 116, 101, 120, 116, 0>>
          \o <<46, 114, 111, 100, 97, 116, 97, 0>>
          \o <<46, 115, 121, 109, 116, 97, 98, 0>>
          \o <<46, 100, 121, 110, 115, 121, 109, 0>> \o <<46, 100, 121, 110>>

\* name offsets: "", .data, data, .text, .rodata, .symtab, .dynsym, .dyn
\* (unterminated), the size of the table and one beyond it.
NameOffs == {0, 1, 2, 7, 13, 21, 29, 37, 41, 60}

\* section contents: the bytes A, blank, '-', NUL and DEL.
SecBytes == {65, 32, 45, 0, 127}

\* a parsed file with one section of any content, followed or not by a
\* .rodata section that holds "AA" NUL "7A7A".
StrFiles ==
    {[null |-> FALSE, at |-> <<d, <<65, 65, 0, 55, 65, 55, 65>> >>] :
        d \in SeqsUpTo(SecBytes, MaxSecLen)}

StrElfs(f) ==
    {[null |-> FALSE, class |-> 2, has_shstrtab |-> TRUE, shstrtab |-> ShStrTab,
      shdrs |-> <<Shdr(n, 1, 1, Len(f.at[1]), 0, 0)>> \o tl] :
        n \in {1, 7, 37},
        tl \in {<<>>, <<Shdr(13, 1, 2, 7, 0, 0)>>}}

\* the string table of the symbols: \0 a \0 b, the last name without NUL.
SymStrTab == <<0, 97, 0, 98>>

\* symbol tables of up to MaxSyms entries; an entry carries its name offset
\* and, as its value, its place in the table.
SymTables ==
    {[i \in 1..Len(q) |-> [name |-> q[i], value |-> i]] :
        q \in SeqsUpTo(0..4, MaxSyms)}

\* a parsed 64-bit file with a symbol table section and a string table
\* section: the name, the link and the size of the first one and the type
\* and the size of the second one vary.
SymFiles == {[null |-> FALSE, at |-> <<t, SymStrTab>>] : t \in SymTables}

SymElfs(f) ==
    {[null |-> FALSE, class |-> 2, has_shstrtab |-> TRUE, shstrtab |-> ShStrTab,
      shdrs |-> <<Shdr(n, 2, 1, Len(f.at[1]) * 24, l, es),
                  Shdr(13, t, 2, z, 0, 0)>>] :
        n \in {21, 29, 7}, l \in 0..2, es \in {0, 24}, t \in {3, 1},
        z \in {Len(SymStrTab), 0}}

\* parsed files with one section header whose name offset is any of
\* NameOffs; the string table is the one above, a table without any NUL,
\* an empty table, or was not loaded.
NameElfs ==
    {[null |-> FALSE, class |-> c, has_shstrtab |-> h, shstrtab |-> t,
      shdrs |-> <<Shdr(n, 1, 1, 0, 0, 0)>>] :
        c \in {1, 2}, h \in BOOLEAN, t \in {ShStrTab, <<46, 97>>, <<>>},
        n \in NameOffs}

\* elf_parse and emit_load have returned for one of the files.
InitElf ==
    /\ NoModel
    /\ NoEmit
    /\ PoolCreated(1, 0)
    /\ \/ file \in StrFiles /\ elf \in StrElfs(file)
       \/ file \in SymFiles /\ elf \in SymElfs(file)
       \/ file = [null |-> FALSE, at |-> <<>>] /\ elf \in NameElfs
    /\ dyna = [null |-> TRUE]
    /\ disj = [null |-> TRUE]
    /\ libret = [call |-> "none"]

NextElf ==
    \/ \E min_len \in 0..MaxMinLen : EmitExtractStrings(min_len)
    \/ EmitExtractSymbols
    \/ \E k \in 1..2 : ShdrName(k)

SpecElf == InitElf /\ [][NextElf]_vars

(***************************************************************************)
(* elfx.c: elf_parse                                                       *)
(***************************************************************************)
\* a 64-bit unsigned field value near 0, near 2^32 or near 2^64:
\* k = 0 stands for d, k = 1 for 2^32 + d and k = 2 for 2^64 + d (d < 0).
U64(k, d) == [k |-> k, d |-> d]

\* x + n in uint64_t arithmetic, n a small count of bytes: a value near
\* 2^64 wraps around to a small one.
u64_add_nowrap(x, n) == U64(x.k, x.d + n)

u64_add(x, n) ==
    IF x.k = 2 /\ x.d + n >= 0 THEN U64(0, x.d + n) ELSE U64(x.k, x.d + n)

\* x <= size, size being the size of the file.
u64_le(x, size) == x.k = 0 /\ x.d <= size

\* sizeof of the header (1), program header (2) and section header (3)
\* structs of a class.
elf_sizeof(class, what) ==
    IF class = 1
    THEN (IF what = 1 THEN 52 ELSE IF what = 2 THEN 32 ELSE 40)
    ELSE (IF what = 1 THEN 64 ELSE IF what = 2 THEN 56 ELSE 64)

\* the bytes [x, x + n) lie in a file of this size.
in_file(x, n, size) == x.k = 0 /\ x.d >= 0 /\ x.d + n <= size

\* elf_parse32 and elf_parse64 after the header size test: which tables
\* the tests let the parser read, and whether a read leaves the buffer.
parse_tables(f) ==
    LET ph == /\ f.phnum > 0
              /\ u64_le(u64_add(f.phoff, f.phnum * elf_sizeof(f.class, 2)),
                        f.size)
        sh == /\ f.shnum > 0
              /\ u64_le(u64_add(f.shoff, f.shnum * elf_sizeof(f.class, 3)),
                        f.size)
        tab == f.shtab[f.shstrndx + 1]
        str == /\ sh
               /\ f.shstrndx < f.shnum
               /\ u64_le(u64_add(tab.offset, tab.size), f.size)
    IN  [ph |-> ph, sh |-> sh, str |-> str,
         oob |-> \/ ph /\ ~in_file(f.phoff,
                                   f.phnum * elf_sizeof(f.class, 2), f.size)
                 \/ sh /\ ~in_file(f.shoff,
                                   f.shnum * elf_sizeof(f.class, 3), f.size)
                 \/ str /\ ~in_file(tab.offset, tab.size, f.size)]

parse_fails_nosize(f) ==
    \/ f.null
    \/ ~f.readok
    \/ f.size < 16
    \/ ~f.magic
    \/ f.class \notin {1, 2}

\* whether elf_parse returns 0x0: open failure, read failure, a file
\* shorter than e_ident or than the header of its class, bad magic,
\* unknown class.
parse_fails(f) ==
    \/ f.null
    \/ ~f.readok
    \/ f.size < 16
    \/ ~f.magic
    \/ f.class \notin {1, 2}
    \/ f.size < elf_sizeof(f.class, 1)

\* elf_parse(path).  A table read that leaves the buffer is undefined: the
\* process faults or the parser builds its headers from the bytes it
\* found there.
ElfParse(outcome) ==
    /\ libret.call = "none"
    /\ elf.null
    /\ IF parse_fails(file)
       THEN /\ elf' = [null |-> TRUE]
            /\ libret' = [call |-> "parse", oob |-> FALSE]
       ELSE LET t == parse_tables(file)
            IN  IF t.oob /\ outcome = "fault"
                THEN /\ elf' = elf
                     /\ libret' = [call |-> "undefined", oob |-> TRUE]
                ELSE /\ elf' = [null |-> FALSE, class |-> file.class,
                                phdrs |-> IF t.ph THEN file.phnum ELSE 0,
                                shdrs |-> IF t.sh
                                          THEN SubSeq(file.shtab, 1, file.shnum)
                                          ELSE <<>>,
                                has_shstrtab |-> t.str,
                                shstrtab |-> <<>>]
                     /\ libret' = [call |-> "parse", oob |-> t.oob]
    /\ UNCHANGED <<file, dyna, disj>>
    /\ UNCHANGED <<jobarg, instructions, strings, symbols, view_mode,
                   selected, scroll, cmd, status, mlock, uxpc, g_ctx, openk,
                   widx, nopen, session, ctx, ehist>>
    /\ UNCHANGED poolVars

\* the files given to elf_parse: a path that cannot be opened, a file that
\* cannot be read, and files of every interesting size, magic and class
\* whose header names tables at offsets inside the file, across its end,
\* near 2^32 and near 2^64.
FileSizes == {0, 15, 16, 51, 52, 63, 64, MaxFileSize}

\* the fields of a 32-bit file hold values below 2^32.
TableOffs(class) ==
    {U64(0, 64), U64(0, MaxFileSize - elf_sizeof(class, 3)),
     U64(0, MaxFileSize - 8), U64(1, 0 - elf_sizeof(class, 2)),
     U64(class, 0 - elf_sizeof(class, 2)),
     U64(class, 0 - elf_sizeof(class, 3)), U64(class, 0 - 8)}

ParseFiles ==
    {[null |-> TRUE], [null |-> FALSE, readok |-> FALSE]} \cup
    {[null |-> FALSE, readok |-> TRUE, size |-> z, magic |-> m, class |-> c,
      phoff |-> U64(0, 64), phnum |-> 0, shoff |-> U64(0, 64), shnum |-> 0,
      shstrndx |-> 0, shtab |-> <<>>] :
        z \in FileSizes, m \in BOOLEAN, c \in 0..3} \cup
    UNION {
      {[null |-> FALSE, readok |-> TRUE, size |-> MaxFileSize, magic |-> TRUE,
        class |-> c, phoff |-> po, phnum |-> pn, shoff |-> so, shnum |-> sn,
        shstrndx |-> sx,
        shtab |-> <<Shdr(1, 3, to, 16, 0, 0)>>] :
          po \in TableOffs(c), pn \in 0..1, so \in TableOffs(c),
          sn \in 0..1, sx \in 0..1,
          to \in TableOffs(c)} :
      c \in {1, 2}}

InitParse ==
    /\ NoModel
    /\ NoEmit
    /\ PoolCreated(1, 0)
    /\ file \in ParseFiles
    /\ elf = [null |-> TRUE]
    /\ dyna = [null |-> TRUE]
    /\ disj = [null |-> TRUE]
    /\ libret = [call |-> "none"]

NextParse == \E outcome \in {"ok", "fault"} : ElfParse(outcome)

SpecParse == InitParse /\ [][NextParse]_vars

(***************************************************************************)
(* ui.c: the operations of the presentation model, called one after the    *)
(* other by one thread                                                     *)
(***************************************************************************)
\* the frame of an operation of the model: one more call was made.
ModelCall(call) ==
    /\ libret.n < MaxModelCalls
    /\ libret' = call @@ [n |-> libret.n + 1]
    /\ UNCHANGED <<file, elf, dyna, disj>>
    /\ UNCHANGED <<jobarg, uxpc, g_ctx, openk, widx, nopen, session, ctx,
                   ehist>>
    /\ UNCHANGED poolVars

UiModelClear_noreset ==
    /\ mlock = Unlocked
    /\ instructions' = <<>>
    /\ UNCHANGED <<selected, scroll>>
    /\ UNCHANGED <<strings, symbols, view_mode, cmd, status, mlock>>
    /\ ModelCall([call |-> "clear"])

\* ui_model_clear(model).
UiModelClear ==
    /\ mlock = Unlocked
    /\ instructions' = <<>>
    /\ selected' = 0
    /\ scroll' = 0
    /\ UNCHANGED <<strings, symbols, view_mode, cmd, status, mlock>>
    /\ ModelCall([call |-> "clear"])

\* ui_model_add_insns(model, X).
UiModelAddInsns(X) ==
    /\ mlock = Unlocked
    /\ instructions' = PushAll(instructions, X, 0)
    /\ UNCHANGED <<strings, symbols, view_mode, selected, scroll, cmd,
                   status, mlock>>
    /\ ModelCall([call |-> "add_insns", x |-> X,
                  after_clear |-> libret.call = "clear"])

\* ui_model_set_view(model, mode).
UiModelSetView(mode) ==
    /\ ui_model_set_view(mode)
    /\ UNCHANGED <<instructions, strings, symbols, cmd>>
    /\ ModelCall([call |-> "set_view", mode |-> mode])

\* the batches handed to ui_model_add_insns: instructions in descending
\* address order, so that a sort or a reversal would show.
ModelBatches ==
    {l \in InsnLists : \A i \in 1..(Len(l) - 1) :
                           l[i].address > l[i + 1].address}

\* a model in any state: a list of instructions, any view, selection and
\* scroll position, an empty or a typed command line.
InitModel ==
    /\ session = NoSession
    /\ PoolCreated(1, 0)
    /\ NoEmit
    /\ file = [null |-> TRUE]
    /\ elf = [null |-> TRUE]
    /\ dyna = [null |-> TRUE]
    /\ disj = [null |-> TRUE]
    /\ libret = [call |-> "none", n |-> 0]
    /\ instructions \in {l \in InsnLists : Len(l) <= 1}
    /\ strings = FileStrings(FileA)
    /\ symbols = FileSymbols(FileA)
    /\ view_mode \in {"INSTRUCTIONS", "STRINGS", "SYMBOLS"}
    /\ selected \in 0..MaxInsns
    /\ scroll \in 0..1
    /\ cmd \in {<<>>, CmdQuit}
    /\ status = Status("", 0, <<>>)
    /\ mlock = Unlocked
    /\ uxpc = "none"

NextModel ==
    \/ UiModelClear
    \/ \E X \in ModelBatches : UiModelAddInsns(X)
    \/ \E mode \in {"INSTRUCTIONS", "STRINGS", "SYMBOLS"} : UiModelSetView(mode)

SpecModel == InitModel /\ [][NextModel]_vars

(***************************************************************************)
(* dyna.c: the growable sequence                                           *)
(***************************************************************************)
\* dyna_create: no storage, length 0, capacity 0.
dyna_create == [null |-> FALSE, length |-> 0, capacity |-> 0, data |-> <<>>]

\* the calls made on the sequence leave every other variable alone.
DynaCall ==
    /\ UNCHANGED <<file, elf, disj>>
    /\ UNCHANGED <<jobarg, instructions, strings, symbols, view_mode,
                   selected, scroll, cmd, status, mlock, uxpc, g_ctx, openk,
                   widx, nopen, session, ctx, ehist>>
    /\ UNCHANGED poolVars

\* the capacity dyna_push asks realloc for.
dyna_grown(capacity) == IF capacity = 0 THEN 16 ELSE capacity * 2

\* dyna_push(array, item): returns nothing.  reallocok is the outcome of the
\* realloc made when length = capacity; when it fails the function prints a
\* message and returns.
DynaPush(item, reallocok) ==
    /\ ~dyna.null
    /\ libret.n < MaxPushes
    /\ item # NULL
    /\ LET grow == dyna.length = dyna.capacity
       IN  /\ (~grow) => reallocok
           /\ dyna' = IF grow /\ ~reallocok THEN dyna
                      ELSE [dyna EXCEPT
                              !.capacity = IF grow THEN dyna_grown(@) ELSE @,
                              !.data = Append(@, item),
                              !.length = @ + 1]
           /\ libret' = [call |-> "push", n |-> libret.n + 1,
                         pops |-> libret.pops, item |-> item,
                         failed |-> grow /\ ~reallocok, ret |-> "void"]
    /\ DynaCall

dyna_pop_last(array, index) ==
    IF index >= array.length THEN [item |-> NULL, array |-> array]
    ELSE [item |-> array.data[index + 1],
          array |-> [array EXCEPT
                       !.data = [i \in 1..(array.length - 1) |->
                                   IF i = index + 1 THEN array.data[array.length]
                                   ELSE array.data[i]],
                       !.length = @ - 1]]

\* dyna_pop(array, index): the item at index and the array after the call;
\* the items above index are shifted down by one.
dyna_pop(array, index) ==
    IF index >= array.length THEN [item |-> NULL, array |-> array]
    ELSE [item |-> array.data[index + 1],
          array |-> [array EXCEPT
                       !.data = [i \in 1..(array.length - 1) |->
                                   IF i <= index THEN array.data[i]
                                   ELSE array.data[i + 1]],
                       !.length = @ - 1]]

DynaPop(index) ==
    /\ ~dyna.null
    /\ libret.pops < MaxPops
    /\ LET r == dyna_pop(dyna, index)
       IN  /\ dyna' = r.array
           /\ libret' = [call |-> "pop", n |-> libret.n,
                         pops |-> libret.pops + 1, item |-> index,
                         failed |-> index >= dyna.length, ret |-> r.item]
    /\ DynaCall

\* the element handle (a pointer of PtrSize bytes, least significant byte
\* first) made of the first k bytes of h above PtrSize - k zero bytes.
handle_prefix(h, k) ==
    IF k <= 0 THEN 0
    ELSE IF k = 1 THEN h % 256
    ELSE IF k = 2 THEN h % 65536
    ELSE IF k = 3 THEN h % 16777216
    ELSE h

\* memcpy(dst, src, bytes) into a zeroed array of nmemb handles: the handles
\* of src of which `bytes` bytes were copied.
memcpy_handles(src, nmemb, bytes) ==
    [i \in 1..nmemb |-> handle_prefix(src[i], bytes - PtrSize * (i - 1))]

\* dyna_make(data, length): calloc(length, sizeof(void*)) and
\* memcpy(array->data, data, length).  The two calloc calls are taken to
\* succeed.
dyna_make(data, length) ==
    [null |-> FALSE, length |-> length, capacity |-> length,
     data |-> memcpy_handles(data, length, length)]

DynaMake(data) ==
    /\ dyna.null
    /\ dyna' = dyna_make(data, Len(data))
    /\ libret' = [call |-> "make", n |-> libret.n, pops |-> libret.pops,
                  item |-> data, failed |-> FALSE, ret |-> "array"]
    /\ DynaCall

\* the indices popped: the first items, the last one and two past the end.
PopIndices == {0, 1, dyna.length - 1, dyna.length, dyna.length + 1} \ {-1}

\* a sequence made by dyna_create; the n-th push pushes the item n.
InitDyna ==
    /\ NoModel
    /\ NoEmit
    /\ session = NoSession
    /\ PoolCreated(1, 0)
    /\ file = [null |-> TRUE]
    /\ elf = [null |-> TRUE]
    /\ dyna = dyna_create
    /\ disj = [null |-> TRUE]
    /\ libret = [call |-> "none", n |-> 0, pops |-> 0, item |-> 0,
                 failed |-> FALSE, ret |-> "void"]

NextDyna ==
    \/ \E reallocok \in BOOLEAN : DynaPush(libret.n + 1, reallocok)
    \/ \E index \in PopIndices : DynaPop(index)

SpecDyna == InitDyna /\ [][NextDyna]_vars

\* the arrays handed to dyna_make: the first n of MaxMake heap pointers, 16
\* bytes apart.
MakeInputs == {[i \in 1..n |-> 16777216 + 16 * i] : n \in 0..MaxMake}

\* no sequence yet; dyna_make makes one, pushes and pops follow.
InitMake ==
    /\ NoModel
    /\ NoEmit
    /\ session = NoSession
    /\ PoolCreated(1, 0)
    /\ file = [null |-> TRUE]
    /\ elf = [null |-> TRUE]
    /\ dyna = [null |-> TRUE]
    /\ disj = [null |-> TRUE]
    /\ libret = [call |-> "none", n |-> 0, pops |-> 0, item |-> 0,
                 failed |-> FALSE, ret |-> "void"]

NextMake ==
    \/ \E data \in MakeInputs : DynaMake(data)
    \/ ~dyna.null /\ NextDyna

SpecMake == InitMake /\ [][NextMake]_vars

(***************************************************************************)
(* disj.c: the disassembly jobs, from disj_post_bytes to the return of     *)
(* disj_run_bytes, and the decoder handle each worker thread keeps         *)
(***************************************************************************)
\* the architecture tuples of the jobs; cs_open has no decoder for "bad".
Tuples == {"x86_64", "arm", "bad"}

\* nothing posted yet, no thread has a decoder.  oom: allocations may fail
\* in this run; tuples: the tuples the jobs of this run are posted with.
DisjStart(oom, tuples) ==
    [null |-> FALSE, oom |-> oom, tuples |-> tuples, state |-> "running",
     tls |-> [w \in Workers |-> [made |-> FALSE, ok |-> FALSE,
                                 tuple |-> "none", handle |-> "none"]],
     handles |-> [w \in Workers |-> 0],
     peak |-> [w \in Workers |-> 0],
     job |-> [j \in JobIds |-> [tuple |-> "none", data |-> "none",
                                rec |-> "none", dfreed |-> 0, rfreed |-> 0,
                                stale |-> FALSE]],
     published |-> {},
     last |-> [call |-> "none"]]

\* free(job->data); free(job).
free_job(job) ==
    [job EXCEPT !.data = "freed", !.rec = "freed", !.dfreed = @ + 1,
                !.rfreed = @ + 1]

\* disj_post_bytes(pool, tuple, data, length, vaddr) with a pool, data and
\* length > 0.  outcome names the allocation that fails: the copy of the
\* bytes, the job record, or the job_t of wrk_pool_post.  wrk_pool_post
\* returns 0 whatever ring_push returned.
DisjPost(tuple, outcome, growok) ==
    /\ ~disj.null
    /\ disj.state = "running"
    /\ fgpc = "idle"
    /\ njobs < limit
    /\ tuple \in disj.tuples
    /\ outcome = "ok" \/ disj.oom
    /\ LET j == njobs + 1
           fresh == [tuple |-> tuple, data |-> "live", rec |-> "live",
                     dfreed |-> 0, rfreed |-> 0, stale |-> FALSE]
       IN  IF outcome = "malloc"
           THEN /\ disj' = [disj EXCEPT !.last = [call |-> "post", job |-> 0,
                                                  rv |-> -1]]
                /\ ret' = -1
                /\ UNCHANGED <<ring, fifo, has_work, posted, njobs>>
           ELSE IF outcome = "calloc"
           THEN /\ disj' = [disj EXCEPT
                              !.job[j] = [fresh EXCEPT !.data = "freed",
                                                       !.dfreed = 1,
                                                       !.rec = "none"],
                              !.last = [call |-> "post", job |-> j, rv |-> -1]]
                /\ ret' = -1
                /\ njobs' = j
                /\ UNCHANGED <<ring, fifo, has_work, posted>>
           ELSE IF outcome = "job_make" \/ PostRejects(shutting_down)
           THEN /\ disj' = [disj EXCEPT
                              !.job[j] = free_job(fresh),
                              !.last = [call |-> "post", job |-> j, rv |-> -1]]
                /\ ret' = -1
                /\ njobs' = j
                /\ UNCHANGED <<ring, fifo, has_work, posted>>
           ELSE LET p == ring_push(ring, j, growok)
                IN  /\ ring' = p.ring
                    /\ fifo' = IF p.rv = 0 THEN Append(fifo, j) ELSE fifo
                    /\ has_work' \in Signal(has_work)
                    /\ posted' = posted \cup {j}
                    /\ njobs' = j
                    /\ ret' = 0
                    /\ disj' = [disj EXCEPT
                                  !.job[j] = fresh,
                                  !.last = [call |-> "post", job |-> j,
                                            rv |-> 0]]
    /\ UNCHANGED <<file, elf, dyna, libret>>
    /\ UNCHANGED <<jobarg, instructions, strings, symbols, view_mode,
                   selected, scroll, cmd, status, mlock, uxpc, g_ctx, openk,
                   widx, nopen, session, ctx, ehist>>
    /\ UNCHANGED <<count, limit, queued, active, shutting_down, idle, wpc,
                   wjob, joined, fgpc, fgjob, fgj, in_destroy, nshutdown,
                   invoked, returned>>

cs_get_noclose(t, n, tuple, tlsok, openok) ==
    IF t.made /\ t.ok /\ t.tuple = tuple
    THEN [tls |-> t, handles |-> n, peak |-> n, ok |-> TRUE, why |-> "none"]
    ELSE IF ~t.made /\ ~tlsok
    THEN [tls |-> t, handles |-> n, peak |-> n, ok |-> FALSE, why |-> "tls"]
    ELSE IF ~openok
         THEN [tls |-> [made |-> TRUE, ok |-> FALSE, tuple |-> tuple,
                        handle |-> "none"],
               handles |-> n, peak |-> n, ok |-> FALSE, why |-> "open"]
         ELSE [tls |-> [made |-> TRUE, ok |-> TRUE, tuple |-> tuple,
                        handle |-> tuple],
               handles |-> n + 1, peak |-> n + 1, ok |-> TRUE,
               why |-> "none"]

\* cs_get(tuple) in a thread whose cs_tls_t is t and which has n decoder
\* handles open: the cs_tls_t and the handles after the call, the largest
\* number of handles open during it, and whether a cs_tls_t is returned.
\* tlsok and openok are the outcomes of calloc and cs_open.
cs_get(t, n, tuple, tlsok, openok) ==
    IF t.made /\ t.ok /\ t.tuple = tuple
    THEN [tls |-> t, handles |-> n, peak |-> n, ok |-> TRUE, why |-> "none"]
    ELSE IF ~t.made /\ ~tlsok
    THEN [tls |-> t, handles |-> n, peak |-> n, ok |-> FALSE, why |-> "tls"]
    ELSE LET closed == IF t.made /\ t.ok THEN n - 1 ELSE n
         IN  IF ~openok
             THEN [tls |-> [made |-> TRUE, ok |-> FALSE, tuple |-> tuple,
                            handle |-> "none"],
                   handles |-> closed, peak |-> n, ok |-> FALSE,
                   why |-> "open"]
             ELSE [tls |-> [made |-> TRUE, ok |-> TRUE, tuple |-> tuple,
                            handle |-> tuple],
                   handles |-> closed + 1,
                   peak |-> IF closed + 1 > n THEN closed + 1 ELSE n,
                   ok |-> TRUE, why |-> "none"]

\* the outcomes of cs_open for a tuple, and of the allocations of a run.
OpenOutcomes(tuple) ==
    IF tuple = "bad" THEN {FALSE}
    ELSE IF disj.oom THEN BOOLEAN ELSE {TRUE}

RunFailures ==
    IF disj.oom THEN {"none", "result", "record", "push", "message"}
    ELSE {"none"}

\* one turn of wrk_main in worker w: the job at the head of the queue is
\* popped and disj_run_bytes runs to its end.  failure names the allocation
\* that fails after cs_get: the result sequence (dyna_create), a decoded
\* record (calloc), the growth of the result sequence (dyna_push) or the
\* batch message (calloc).  Only dyna_push tests its allocation; the others
\* are written through at once, which is undefined for 0x0.
DisjRun(w, tlsok, openok, failure) ==
    /\ ~disj.null
    /\ disj.state = "running"
    /\ w \in 1..count
    /\ wpc[w] = "lock"
    /\ ring.count > 0
    /\ tlsok \/ disj.oom
    /\ failure \in RunFailures
    /\ LET p == ring_pop(ring)
           j == p.item
           job == disj.job[j]
           g == cs_get(disj.tls[w], disj.handles[w], job.tuple, tlsok, openok)
           run == [call |-> "run", job |-> j, worker |-> w,
                   tuple |-> job.tuple, handle |-> g.tls.handle]
       IN  /\ openok \in OpenOutcomes(job.tuple)
           /\ ring' = p.ring
           /\ fifo' = Tail(fifo)
           /\ invoked' = [invoked EXCEPT ![j] = @ + 1]
           /\ IF ~g.ok
              THEN /\ disj' = [disj EXCEPT
                                 !.tls[w] = g.tls,
                                 !.handles[w] = g.handles,
                                 !.peak[w] = g.peak,
                                 !.job[j] = [free_job(job) EXCEPT
                                               !.stale = job.dfreed > 0],
                                 !.last = run @@ [decoded |-> FALSE,
                                                  failure |-> g.why]]
                   /\ returned' = returned \cup {j}
              ELSE IF failure \in {"result", "record", "message"}
              THEN /\ disj' = [disj EXCEPT
                                 !.tls[w] = g.tls,
                                 !.handles[w] = g.handles,
                                 !.peak[w] = g.peak,
                                 !.state = "undefined",
                                 !.last = run @@ [decoded |-> TRUE,
                                                  failure |-> failure]]
                   /\ returned' = returned
              ELSE /\ disj' = [disj EXCEPT
                                 !.tls[w] = g.tls,
                                 !.handles[w] = g.handles,
                                 !.peak[w] = g.peak,
                                 !.job[j] = [free_job(job) EXCEPT
                                               !.stale = job.dfreed > 0],
                                 !.published = @ \cup {j},
                                 !.last = run @@ [decoded |-> TRUE,
                                                  failure |-> failure]]
                   /\ returned' = returned \cup {j}
    /\ UNCHANGED <<file, elf, dyna, libret>>
    /\ UNCHANGED <<jobarg, instructions, strings, symbols, view_mode,
                   selected, scroll, cmd, status, mlock, uxpc, g_ctx, openk,
                   widx, nopen, session, ctx, ehist>>
    /\ UNCHANGED <<count, limit, queued, active, shutting_down, has_work,
                   idle, wpc, wjob, joined, fgpc, fgjob, fgj, in_destroy,
                   ret, njobs, nshutdown, posted>>

\* a pool of one or two workers; up to MaxDisjPosts jobs of any tuple are
\* posted; with one worker the allocations may fail.
InitDisj ==
    /\ NoModel
    /\ NoEmit
    /\ file = [null |-> TRUE]
    /\ elf = [null |-> TRUE]
    /\ dyna = [null |-> TRUE]
    /\ libret = [call |-> "none"]
    /\ \E n \in 1..2 : PoolCreated(n, MaxDisjPosts)
    /\ \E oom \in BOOLEAN : disj = DisjStart(oom, Tuples)
    /\ disj.oom => count = 1

\* a pool of one worker; enough jobs are posted to fill the ring and make
\* it grow; only the growth of the ring may fail.
InitDisjRing ==
    /\ NoModel
    /\ NoEmit
    /\ file = [null |-> TRUE]
    /\ elf = [null |-> TRUE]
    /\ dyna = [null |-> TRUE]
    /\ libret = [call |-> "none"]
    /\ PoolCreated(1, MaxRingPosts)
    /\ disj = DisjStart(FALSE, {"x86_64"})

NextDisj ==
    \/ \E tuple \in Tuples, outcome \in {"ok", "malloc", "calloc", "job_make"},
          growok \in BOOLEAN : DisjPost(tuple, outcome, growok)
    \/ \E w \in Workers, tlsok \in BOOLEAN, openok \in BOOLEAN,
          failure \in {"none", "result", "record", "push", "message"} :
           DisjRun(w, tlsok, openok, failure)

SpecDisj == InitDisj /\ [][NextDisj]_vars

SpecDisjRing == InitDisjRing /\ [][NextDisj]_vars

(***************************************************************************)
(* wrk.c: wrk_pool_create                                                  *)
(***************************************************************************)
\* what wrk_pool_create has allocated and initialised so far.
NoResources ==
    [call |-> "create", rv |-> "pending", thread_failed |-> FALSE, j |-> 0,
     pool |-> "none", threads |-> "none", mutex |-> "none",
     has_work |-> "none", idle |-> "none", job_queue |-> "none"]

CreateFrame ==
    /\ UNCHANGED <<file, elf, dyna, disj>>
    /\ UNCHANGED <<jobarg, instructions, strings, symbols, view_mode,
                   selected, scroll, cmd, status, mlock, uxpc, g_ctx, openk,
                   widx, nopen, session, ctx, ehist>>
    /\ UNCHANGED <<limit, ring, queued, active, idle, wjob, fgjob,
                   in_destroy, ret, njobs, nshutdown, posted, invoked,
                   returned, fifo>>

\* wrk_pool_create(n) up to the loop that starts the threads.  outcome names
\* the allocation that fails: the pool record, the thread array, or the
\* data of the ring (ring_init returns 0x0 and its record stays allocated).
CreateCall(n, outcome) ==
    /\ fgpc = "nopool"
    /\ count' = n
    /\ fgj' = 0
    /\ libret' =
           IF outcome = "pool" THEN [NoResources EXCEPT !.rv = "null"]
           ELSE IF outcome = "threads"
           THEN [NoResources EXCEPT !.rv = "null", !.pool = "released"]
           ELSE IF outcome = "ring"
           THEN [NoResources EXCEPT
                   !.rv = "null", !.pool = "released",
                   !.threads = "released", !.mutex = "released",
                   !.has_work = "released", !.idle = "released",
                   !.job_queue = "live"]
           ELSE [NoResources EXCEPT
                   !.pool = "live", !.threads = "live", !.mutex = "live",
                   !.has_work = "live", !.idle = "live",
                   !.job_queue = "live"]
    /\ fgpc' = IF outcome = "ok" THEN "create_threads" ELSE "create_failed"
    /\ UNCHANGED <<shutting_down, has_work, wpc, joined>>
    /\ CreateFrame

\* the loop: pthread_create for the next thread.  When it fails the pool is
\* marked shutting down and has_work is broadcast.
CreateThread(ok) ==
    /\ fgpc = "create_threads"
    /\ fgj < count
    /\ IF ok
       THEN /\ wpc' = [wpc EXCEPT ![fgj + 1] = "lock"]
            /\ fgj' = fgj + 1
            /\ fgpc' = IF fgj + 1 = count THEN "idle" ELSE fgpc
            /\ libret' = IF fgj + 1 = count
                         THEN [libret EXCEPT !.rv = "pool"] ELSE libret
            /\ UNCHANGED <<shutting_down, has_work>>
       ELSE /\ shutting_down' = TRUE
            /\ has_work' = {}
            /\ fgpc' = "create_join"
            /\ libret' = [libret EXCEPT !.thread_failed = TRUE]
            /\ UNCHANGED <<wpc, fgj>>
    /\ UNCHANGED <<count, joined>>
    /\ CreateFrame

\* the rollback: pthread_join of the next thread that was started.
CreateJoin ==
    /\ fgpc = "create_join"
    /\ libret.j < fgj
    /\ JoinReady(libret.j + 1)
    /\ joined' = joined \cup {libret.j + 1}
    /\ libret' = [libret EXCEPT !.j = @ + 1]
    /\ UNCHANGED <<count, shutting_down, has_work, wpc, fgpc, fgj>>
    /\ CreateFrame

\* the rollback, after the joins: the condition variables and the mutex are
\* destroyed, the thread array and the pool record are freed, 0x0 is
\* returned.
CreateRelease ==
    /\ fgpc = "create_join"
    /\ libret.j = fgj
    /\ libret' = [libret EXCEPT
                    !.rv = "null", !.idle = "released",
                    !.has_work = "released", !.mutex = "released",
                    !.threads = "released", !.pool = "released"]
    /\ fgpc' = "create_failed"
    /\ UNCHANGED <<count, shutting_down, has_work, wpc, joined, fgj>>
    /\ CreateFrame

\* wrk_pool_create has not been called yet; the pool it returns is used by a
\* client that posts up to MaxPosts jobs.
InitCreate ==
    /\ NoModel
    /\ NoEmit
    /\ file = [null |-> TRUE]
    /\ elf = [null |-> TRUE]
    /\ dyna = [null |-> TRUE]
    /\ disj = [null |-> TRUE]
    /\ libret = NoResources
    /\ count = 0
    /\ limit = MaxPosts
    /\ ring = ring_init
    /\ queued = 0
    /\ active = 0
    /\ shutting_down = FALSE
    /\ has_work = {}
    /\ idle = {}
    /\ wpc = [w \in Workers |-> "none"]
    /\ wjob = [w \in Workers |-> NULL]
    /\ joined = {}
    /\ fgpc = "nopool"
    /\ fgjob = NULL
    /\ fgj = 0
    /\ in_destroy = FALSE
    /\ ret = 0
    /\ njobs = 0
    /\ nshutdown = 0
    /\ posted = {}
    /\ invoked = [j \in JobIds |-> 0]
    /\ returned = {}
    /\ fifo = <<>>
    /\ jobarg = [j \in JobIds |-> NULL]
    /\ widx = [w \in Workers |-> 0]
    /\ openk = 0
    /\ nopen = 0
    /\ g_ctx = NULL

NextCreate ==
    \/ \E n \in Workers, outcome \in {"ok", "pool", "threads", "ring"} :
           CreateCall(n, outcome)
    \/ \E ok \in BOOLEAN : CreateThread(ok)
    \/ CreateJoin
    \/ CreateRelease
    \/ Next

SpecCreate == InitCreate /\ [][NextCreate]_vars

(***************************************************************************)
(* emit.c: the bytes of the symbol section that the entry loops read       *)
(***************************************************************************)
\* the largest sh_size of a symbol section.
MaxSymBytes == 40

\* sizeof(uint32_t), the name field that opens both record layouts.
NameSize == 4

\* the values of sh_entsize: none, smaller than, equal to and larger than
\* the record of either class, a multiple of the word or not.
EntSizes == {0, 8, 12, 16, 24, 32}

\* the bytes of sym_data that the entry loop reads for a section of sh_size
\* bytes: entry i is the record at sym_data + i * entsize; its name is read
\* in every case, its other fields when the entry is not skipped (named).
sym_entry_reads(class, size, es, named) ==
    LET entsize == IF es # 0 THEN es ELSE sym_size(class)
        cnt == size \div entsize
    IN  {[i |-> i, from |-> i * entsize,
          to |-> i * entsize
                     + (IF i \in named THEN sym_size(class) ELSE NameSize)] :
            i \in 0..(cnt - 1)}

\* the entries of a table: 0 .. sh_size / entsize - 1.
SymIndices(class, size, es) ==
    0..((size \div (IF es # 0 THEN es ELSE sym_size(class))) - 1)

\* emit_extract_symbols on the one symbol table of the file, a table that
\* passed the tests of the section loop and whose sh_size bytes were read
\* in full into sym_data (malloc(sh_size)); named are the entries whose name
\* passes the tests of the loop.  A read beyond the buffer is undefined: the
\* list that comes out is then any list.
SymParse(named) ==
    /\ libret.call = "none"
    /\ ~elf.null
    /\ LET symhdr == elf.shdrs[1]
           reads == sym_entry_reads(elf.class, symhdr.size, symhdr.entsize,
                                    named)
       IN  libret' = [call |-> "entries",
                      buffer |-> symhdr.size,
                      reads |-> reads,
                      out |-> IF \E r \in reads : r.to > symhdr.size
                              THEN "undefined" ELSE "symbols"]
    /\ UNCHANGED <<file, elf, dyna, disj>>
    /\ UNCHANGED <<jobarg, instructions, strings, symbols, view_mode,
                   selected, scroll, cmd, status, mlock, uxpc, g_ctx, openk,
                   widx, nopen, session, ctx, ehist>>
    /\ UNCHANGED poolVars

\* elf_parse has returned for a file of either class whose .symtab section
\* has any size and any entry size and is linked to the string table.
InitSym ==
    /\ NoModel
    /\ NoEmit
    /\ PoolCreated(1, 0)
    /\ file = [null |-> FALSE, at |-> <<<<>>, SymStrTab>>]
    /\ elf \in {[null |-> FALSE, class |-> c, has_shstrtab |-> TRUE,
                 shstrtab |-> ShStrTab,
                 shdrs |-> <<Shdr(21, 2, 1, z, 1, es),
                             Shdr(13, 3, 2, Len(SymStrTab), 0, 0)>>] :
                    c \in {1, 2}, z \in 1..MaxSymBytes, es \in EntSizes}
    /\ dyna = [null |-> TRUE]
    /\ disj = [null |-> TRUE]
    /\ libret = [call |-> "none"]

NextSym ==
    \E named \in SUBSET SymIndices(elf.class, elf.shdrs[1].size,
                                   elf.shdrs[1].entsize) : SymParse(named)

SpecSym == InitSym /\ [][NextSym]_vars

(***************************************************************************)
(* Properties of the worker pool and of the ring queue.                    *)
(***************************************************************************)
Range(f) == {f[i] : i \in DOMAIN f}

\* a worker holds a job: from the pop that counted it active up to the
\* decrement of active that follows the return of the job function.
InJob(w) == wpc[w] \in {"call", "infn", "done"}

DrainReturns == fgpc \in {"drain", "drain_wait"} /\ fgpc' = "idle"

\* C1: at the moment wrk_pool_drain returns, every successfully posted job
\* function has been invoked exactly once and has returned, the job queue is
\* empty, and queued = 0 and active = 0.
C1_DrainPostcondition ==
    [][DrainReturns =>
          /\ \A j \in posted' : invoked'[j] = 1 /\ j \in returned'
          /\ ring'.count = 0
          /\ queued' = 0
          /\ active' = 0]_vars

\* C2: with the pool mutex free, queued = 0 and active = 0 holds if and only
\* if the job queue holds no job and no worker is running a job.
C2_IdleIff ==
    (queued = 0 /\ active = 0)
        <=> (ring.count = 0 /\ \A w \in 1..count : ~InJob(w))

PostReturns == fgpc = "post" /\ fgpc' = "idle"

\* C4: wrk_pool_post returns failure and enqueues nothing when the pool is
\* shutting down or an allocation fails; when it returns success the job is
\* in the queue.
C4_PostContract ==
    [][PostReturns =>
          /\ shutting_down => ret' = -1
          /\ ret' = -1 => ring' = ring
          /\ ret' = 0 => fgjob \in Range(RingContents(ring'))]_vars

ShutdownReturns ==
    fgpc = "join" /\ fgpc' \in {"idle", "destroy"}

\* C5: once shutting_down is set every wrk_pool_post fails and enqueues
\* nothing; the step that sets the flag wakes every worker waiting on
\* has_work; and when wrk_pool_shutdown returns every worker has left its
\* loop and every job that was started has run to completion.
C5_Shutdown ==
    /\ [][PostReturns /\ shutting_down =>
             ret' = -1 /\ ring' = ring /\ posted' = posted]_vars
    /\ [][~shutting_down /\ shutting_down' => has_work' = {}]_vars
    /\ [][ShutdownReturns =>
             /\ \A w \in 1..count : wpc'[w] = "exited"
             /\ \A j \in JobIds : invoked'[j] > 0 => j \in returned']_vars

\* C5 witness: after a shutdown that found work in progress, a post was
\* rejected under the lock.
C5_Witness ==
    /\ shutting_down
    /\ fgpc = "idle"
    /\ ret = -1
    /\ fgjob = njobs + 1
    /\ returned # {}
    /\ \A w \in 1..count : wpc[w] = "exited"

\* C6: wrk_pool_destroy never invokes a job function, and no job function
\* runs once destroy has started to free the pool.
C6_DestroyNoInvoke ==
    /\ [][(fgpc \in {"destroy", "destroyed"}) => invoked' = invoked]_vars
    /\ [](fgpc \in {"destroy", "destroyed"} =>
             \A w \in 1..count : wpc[w] = "exited")

\* C6 witness: a pool that ran jobs has been destroyed.
C6_Witness ==
    /\ fgpc = "destroyed"
    /\ returned # {}
    /\ count = NumWorkers

\* C7: the ring is a FIFO queue: its window [head, head+count) always holds
\* the pushed and not yet popped items in push order, also after a growth of
\* a full ring whose head is not 0; a pop hands out the oldest item; a pop on
\* the empty ring returns the no-element value and changes nothing.
C7_RingFifo ==
    /\ [](/\ RingContents(ring) = fifo
          /\ ring.count <= ring.capacity
          /\ ring.head < ring.capacity
          /\ ring.tail = (ring.head + ring.count) % ring.capacity)
    /\ [][\A w \in 1..count :
             wpc[w] # "call" /\ wpc'[w] = "call" =>
                 fifo # <<>> /\ wjob'[w] = Head(fifo)]_vars
    /\ [][fgpc = "destroy" /\ fifo = <<>> =>
             ring' = ring /\ fgpc' = "destroyed"]_vars

\* C7 witness: the ring has just grown from 16 to 32 slots while its head was
\* past slot 0 (items had been popped before it filled up).
C7_Witness ==
    /\ ring.capacity = 2 * RingInitCap
    /\ ring.head = 0
    /\ ring.count = RingInitCap + 1
    /\ ring.data[1] > 1
    /\ fifo = [i \in 1..(RingInitCap + 1) |-> ring.data[1] + (i - 1)]

\* C8: under fair scheduling a wrk_pool_drain in progress returns; drain
\* itself neither sets shutting_down nor stops a worker.
C8_DrainReturns ==
    /\ (fgpc \in {"drain", "drain_wait"}) ~> (fgpc = "idle")
    /\ [][(fgpc \in {"drain", "drain_wait"}) =>
             shutting_down' = shutting_down]_vars
    /\ [](~shutting_down => \A w \in 1..count : wpc[w] # "exited")

\* C8 witness: a drain that had to wait has been woken by the idle broadcast
\* and finds queued = 0 and active = 0.
C8_Witness ==
    /\ fgpc = "drain_wait"
    /\ Fg \notin idle
    /\ queued = 0
    /\ active = 0
    /\ returned # {}
    /\ ~shutting_down

Sequences3 == <<instructions, strings, symbols>>

\* C3: every step that changes the instruction, string or symbol sequence of
\* the model is taken by the thread that holds model->lock across the step:
\* the foreground thread (the open command included) or the worker inside
\* ui_model_add_insns.
C3_SequencesUnderLock ==
    [][(Sequences3' # Sequences3) =>
           /\ mlock' # Unlocked
           /\ mlock \in {Unlocked, mlock'}
           /\ IF uxpc' # uxpc THEN mlock' = Fg ELSE mlock' \in 1..count]_vars

\* C10: whenever ux_handle_key has returned or the model was mutated,
\* selected and scroll lie in [0, len-1] for the sequence of the active
\* view, and both are 0 when that sequence is empty.
C10_SelectionInRange ==
    uxpc \in {"draw", "getch"} =>
        LET len == Len(Items(view_mode))
        IN  IF len = 0
            THEN selected = 0 /\ scroll = 0
            ELSE selected \in 0..(len - 1) /\ scroll \in 0..(len - 1)

\* the smallest 0-based index whose instruction has an address >= addr.
SmallestIndex(insns, addr) ==
    CHOOSE i \in 0..(Len(insns) - 1) :
        /\ insns[i + 1].address >= addr
        /\ \A k \in 0..(i - 1) : insns[k + 1].address < addr

\* the step in which Enter is handled on a goto line.
GotoStep == uxpc = "getch" /\ IsGotoCmd(cmd) /\ cmd' = <<>>

GotoAddr == strtoull(AfterSpace(cmd), GotoBase(AfterSpace(cmd))).val

GotoAccepted == GotoResult(AfterSpace(cmd)).ok

\* C11: an accepted goto A sets selected and scroll to the smallest index i
\* with instructions[i].address >= A, whatever the order in which the jobs
\* published their batches.
C11_GotoSmallestIndex ==
    [][(GotoStep /\ GotoAccepted) =>
           /\ selected' = SmallestIndex(instructions, GotoAddr)
           /\ scroll' = SmallestIndex(instructions, GotoAddr)]_vars

\* C12: goto A on a non-empty list in the instructions view, with
\* first.address <= A <= last.address, leaves instructions[selected].address
\* >= A and (selected = 0 or instructions[selected - 1].address < A).
C12_GotoLocal ==
    [][(/\ GotoStep
        /\ Len(instructions) > 0
        /\ view_mode = "INSTRUCTIONS"
        /\ GotoAccepted) =>
           /\ selected' \in 0..(Len(instructions) - 1)
           /\ instructions[selected' + 1].address >= GotoAddr
           /\ \/ selected' = 0
              \/ instructions[selected'].address < GotoAddr]_vars

\* C12 witness: on the unsorted list [26, 16, 26] a goto 26 was accepted and
\* selected index 2, whose predecessor lies below 26.
C12_Witness ==
    /\ uxpc = "draw"
    /\ status.msg = "goto 0x%llx"
    /\ status.num = 26
    /\ selected = 2
    /\ Len(instructions) = 3
    /\ instructions[1].address = 26
    /\ instructions[2].address = 16

\* a decimal numeral, or a hexadecimal numeral with a 0x prefix.
IsNumeral(s) ==
    \/ /\ Len(s) > 0
       /\ \A i \in 1..Len(s) : IsDigit(s, i, 10)
    \/ /\ Len(s) > 2
       /\ s[1] = "0"
       /\ s[2] \in {"x", "X"}
       /\ \A i \in 3..Len(s) : IsDigit(s, i, 16)

GotoMustReject ==
    \/ Len(instructions) = 0
    \/ view_mode # "INSTRUCTIONS"
    \/ ~IsNumeral(AfterSpace(cmd))
    \/ GotoAddr < instructions[1].address
    \/ GotoAddr > instructions[Len(instructions)].address

GotoRejectMessages ==
    {"no instructions loaded.",
     "must be in instructions view to goto address.",
     "invalid address: %s"}

\* C13: a goto is rejected when there are no instructions, when the view is
\* not INSTRUCTIONS, when the argument is not a decimal or 0x-prefixed
\* hexadecimal numeral, or when the address lies outside [first.address,
\* last.address]; a rejected goto writes a diagnostic to status and leaves
\* selected, scroll, view_mode and the three sequences unchanged.
C13_GotoRejects ==
    [][(GotoStep /\ GotoMustReject) =>
           /\ status'.msg \in GotoRejectMessages
           /\ UNCHANGED <<selected, scroll, view_mode, instructions, strings,
                          symbols>>]_vars

\* the steps in which Enter is handled on a line that is rejected: an
\* unrecognised command, a rejected goto, an open of a path that cannot be
\* opened.
RejectedEnter ==
    \/ EnterOther
    \/ EnterGoto /\ ~GotoAccepted
    \/ EnterOpen /\ FileOf(AfterSpace(cmd)) = NULL

\* C14: after Enter on a rejected command line status holds a non-empty
\* diagnostic, the command buffer is empty and view_mode is unchanged.
C14_RejectedLine ==
    [][RejectedEnter =>
           /\ status'.msg # ""
           /\ cmd' = <<>>
           /\ view_mode' = view_mode]_vars

\* the foreground thread is inside the open of the file named in cmd.
InOpen ==
    uxpc \in {"open_free", "open_load", "emit", "extract", "strings",
              "extracted", "symbols"}

\* C15: an open of a file that can be opened but not loaded returns with an
\* error diagnostic in status (not the success message), posts no job and
\* leaves the instruction, string and symbol sequences empty.
C15_OpenLoadFailure ==
    [][(InOpen /\ FileOf(AfterSpace(cmd)) = FileU) =>
           /\ uxpc' # "undefined"
           /\ njobs' = njobs
           /\ (uxpc' = "draw") =>
                  /\ status'.msg \notin {"", "successfully disassembled: %s"}
                  /\ Sequences3' = << <<>>, <<>>, <<>> >>]_vars

\* the first whitespace-delimited token of a command line.
FirstToken(c) ==
    LET b == SkipBlanks(c, 1)
        rest == SubSeq(c, b, Len(c))
        sp == strchr_sp(rest)
    IN  IF sp = 0 THEN rest ELSE SubSeq(rest, 1, sp - 1)

CommandWords ==
    {CmdQuit, CmdRefresh, <<"v", "i", "e", "w">>, <<"g", "o", "t", "o">>,
     <<"o", "p", "e", "n">>}

\* the steps in which Enter is handled.
EnterStep ==
    \/ EnterQuit
    \/ EnterRefresh
    \/ EnterView
    \/ EnterGoto
    \/ EnterOther
    \/ EnterOpen

\* C16: a command line whose first token is not exactly quit, refresh, view,
\* goto or open is unrecognised: Enter sets the unrecognised-command status
\* and changes neither the view, the selection nor the loaded data.
C16_FirstTokenDecides ==
    [][(EnterStep /\ FirstToken(cmd) \notin CommandWords) =>
           /\ status'.msg = "unrecognized command."
           /\ UNCHANGED <<view_mode, selected, scroll, instructions, strings,
                          symbols>>]_vars

(***************************************************************************)
(* Properties of the scanner and of the job emitter.                       *)
(***************************************************************************)
\* one emit_scan_text has run on a freshly loaded context.
ScannedOnce == ctx.valid /\ ehist.scans = 1

\* the offsets of the text that lie inside code range r.
Inside(r) == r.offset .. (r.offset + r.length - 1)

\* C17: after one emit_scan_text on a freshly loaded context the ranges are
\* in strictly increasing offset order and pairwise disjoint, every
\* non-padding byte lies in exactly one range, each range starts at a
\* non-padding byte, and no range contains 16 consecutive padding bytes.
C17_ScanRanges ==
    ScannedOnce =>
        LET R == ctx.code_ranges
            T == ctx.text_data
        IN  /\ \A k \in 1..(Len(R) - 1) :
                   /\ R[k].offset < R[k + 1].offset
                   /\ R[k].offset + R[k].length <= R[k + 1].offset
            /\ \A k, m \in 1..Len(R) :
                   k # m => Inside(R[k]) \cap Inside(R[m]) = {}
            /\ \A i \in 0..(Len(T) - 1) :
                   ~is_padding(T[i + 1]) =>
                       Cardinality({k \in 1..Len(R) : i \in Inside(R[k])}) = 1
            /\ \A k \in 1..Len(R) :
                   /\ R[k].offset \in 0..(Len(T) - 1)
                   /\ ~is_padding(T[R[k].offset + 1])
                   /\ \A j \in Inside(R[k]) :
                          j + 15 \in Inside(R[k]) =>
                              \E b \in j..(j + 15) : ~is_padding(T[b + 1])

\* a scan that split the text at a run of sixteen padding bytes and kept a
\* run of fifteen inside a range.
C17_Witness ==
    /\ ScannedOnce
    /\ Len(ctx.code_ranges) >= 2
    /\ \E k \in 1..Len(ctx.code_ranges) :
           \E j \in Inside(ctx.code_ranges[k]) :
               /\ j + 14 \in Inside(ctx.code_ranges[k])
               /\ \A b \in j..(j + 14) : is_padding(ctx.text_data[b + 1])

\* C18: after emit_scan_text every code range of the context has
\* length > 0, lies inside the text (0 <= offset < offset + length <=
\* text_size) and has vaddr = text_vaddr + offset.
C18_RangeBounds ==
    (ctx.valid /\ ehist.scans >= 1) =>
        \A k \in 1..Len(ctx.code_ranges) :
            LET r == ctx.code_ranges[k]
            IN  /\ r.length > 0
                /\ 0 <= r.offset
                /\ r.offset < r.offset + r.length
                /\ r.offset + r.length <= Len(ctx.text_data)
                /\ r.vaddr = ctx.text_vaddr + r.offset

\* a text whose last range ends with the text and does not start at 0.
C18_Witness ==
    /\ ctx.valid
    /\ ehist.scans >= 1
    /\ Len(ctx.code_ranges) >= 2
    /\ ctx.code_ranges[1].offset > 0
    /\ LET r == ctx.code_ranges[Len(ctx.code_ranges)]
       IN  r.offset + r.length = Len(ctx.text_data)

\* C19: emit_scan_text is idempotent: a second call on the same context
\* leaves the code-range sequence as the first call left it.
C19_ScanIdempotent ==
    [][(ctx.valid /\ ehist.scans = 1 /\ ehist'.scans = 2) =>
           ctx'.code_ranges = ctx.code_ranges]_vars

\* C20: emit_range returns success if and only if the call posted at least
\* one job, and failure exactly when it posted none.
C20_RangeReturn ==
    ehist.calls >= 1 => (ehist.range_rv = 0 <=> ehist.posted > 0)

(***************************************************************************)
(* Properties of the extractors and of the ELF parser.                     *)
(***************************************************************************)
\* the maximal runs of printable bytes of a section, as pairs of the first
\* and the last index.
MaximalRuns(data) ==
    {r \in (1..Len(data)) \X (1..Len(data)) :
        /\ r[1] <= r[2]
        /\ \A i \in r[1]..r[2] : data[i] \in 32..126
        /\ r[1] = 1 \/ data[r[1] - 1] \notin 32..126
        /\ r[2] = Len(data) \/ data[r[2] + 1] \notin 32..126}

\* whether a string passes the filter: at least half of its bytes are
\* letters or digits and not every byte is a blank.
PassesFilter(str) ==
    LET alnum == {i \in 1..Len(str) :
                     str[i] \in (48..57) \cup (65..90) \cup (97..122)}
        blank == {i \in 1..Len(str) : str[i] = 32}
    IN  Cardinality(alnum) * 2 >= Len(str) /\ Cardinality(blank) < Len(str)

\* the runs of a section that are to be returned, in the order of the bytes.
RECURSIVE RunsFrom(_, _, _)
RunsFrom(data, i, min_len) ==
    IF i > Len(data) THEN <<>>
    ELSE LET here == {r \in MaximalRuns(data) : r[1] = i}
         IN  IF here = {} THEN RunsFrom(data, i + 1, min_len)
             ELSE LET r == CHOOSE x \in here : TRUE
                      str == SubSeq(data, r[1], r[2])
                  IN  (IF Len(str) >= min_len /\ PassesFilter(str)
                       THEN <<str>> ELSE <<>>)
                      \o RunsFrom(data, r[2] + 1, min_len)

RECURSIVE ExpectedStrings(_, _)
ExpectedStrings(k, min_len) ==
    IF k > Len(elf.shdrs) THEN <<>>
    ELSE (IF scanned(elf, file, elf.shdrs[k])
          THEN RunsFrom(fread(file, elf.shdrs[k]), 1, min_len)
          ELSE <<>>) \o ExpectedStrings(k + 1, min_len)

\* C21: emit_extract_strings returns exactly the maximal runs of printable
\* bytes of the scanned sections that have length >= min_len and pass the
\* filter, one string per run, in section order, whether a run is ended by
\* a non-printable byte or by the end of the section.
C21_StringsAreTheRuns ==
    libret.call = "strings" =>
        libret.out = ExpectedStrings(1, libret.min_len)

\* C22: every string returned by emit_extract_strings has length >=
\* min_len, consists of bytes in 0x20..0x7E, has alphanumeric count times
\* two >= its length and fewer blanks than its length.
C22_StringsAreValid ==
    libret.call = "strings" =>
        \A n \in 1..Len(libret.out) :
            LET str == libret.out[n]
            IN  /\ Len(str) >= libret.min_len
                /\ \A i \in 1..Len(str) : str[i] \in 32..126
                /\ PassesFilter(str)

\* two strings were returned, one of them of exactly min_len bytes with
\* exactly half of its bytes alphanumeric.
C22_Witness ==
    /\ libret.call = "strings"
    /\ Len(libret.out) >= 2
    /\ \E n \in 1..Len(libret.out) :
           /\ Len(libret.out[n]) = libret.min_len
           /\ Len(libret.out[n]) = 2
           /\ \E i \in 1..2 : libret.out[n][i] = 45

\* the symbol tables that are to be read: .symtab or .dynsym sections whose
\* sh_link names a non-empty STRTAB section.
ReadTables ==
    {k \in 1..Len(elf.shdrs) :
        /\ ~elf_shdr_name(elf, elf.shdrs[k]).none
        /\ elf_shdr_name(elf, elf.shdrs[k]).s \in
               {<<46, 115, 121, 109, 116, 97, 98>>,
                <<46, 100, 121, 110, 115, 121, 109>>}
        /\ elf.shdrs[k].link < Len(elf.shdrs)
        /\ elf.shdrs[elf.shdrs[k].link + 1].type = 3
        /\ elf.shdrs[elf.shdrs[k].link + 1].size > 0}

\* an entry whose name offset is nonzero, lies inside the string table and
\* has a NUL terminator within the remaining bytes.
NamedEntry(s, strtab) ==
    /\ s.name # 0
    /\ s.name < Len(strtab)
    /\ \E i \in (s.name + 1)..Len(strtab) : strtab[i] = 0

\* the values of the entries of table k that satisfy Keep, in table order
\* (an entry carries its place in the table as its value).
KeptEntries(k, Keep(_, _)) ==
    LET entries == file.at[elf.shdrs[k].offset]
        strtab == file.at[elf.shdrs[elf.shdrs[k].link + 1].offset]
    IN  SelectSeq([i \in 1..Len(entries) |-> i],
                  LAMBDA i : Keep(entries[i], strtab))

\* a file with one symbol table: the values of the records emitted.
EmittedValues == [n \in 1..Len(libret.out) |-> libret.out[n].value]

\* C23 as stated: for each symbol table that is read, exactly one record
\* is emitted, in table order, for every entry whose name offset is
\* nonzero, lies inside the string table and is followed by a NUL, and no
\* record for any other entry.
C23_OneRecordPerNamedEntry ==
    libret.call = "symbols" =>
        EmittedValues =
            IF 1 \in ReadTables THEN KeptEntries(1, NamedEntry) ELSE <<>>

NamedNonEmpty(s, strtab) == NamedEntry(s, strtab) /\ strtab[s.name + 1] # 0

\* C23 amended: the entries that get a record are those whose name offset
\* is nonzero, lies inside the string table, is followed by a NUL and does
\* not point at a NUL (the name is not empty); each record carries the
\* bytes of the name up to that NUL.
C23_OneRecordPerNonEmptyName ==
    libret.call = "symbols" =>
        /\ EmittedValues =
               IF 1 \in ReadTables THEN KeptEntries(1, NamedNonEmpty)
               ELSE <<>>
        /\ \A n \in 1..Len(libret.out) : libret.out[n].name = <<97>>

\* a table of three entries was read: two named "a" with an entry between
\* them that is skipped.
C23_Witness ==
    /\ libret.call = "symbols"
    /\ Len(file.at[1]) = 3
    /\ EmittedValues = <<1, 3>>

\* C25: elf_shdr_name returns none or a string that starts at
\* name_offset < shstrtab_size and whose NUL terminator lies inside the
\* string table; it returns none exactly when there is no string table, the
\* name offset is >= the table size, or no NUL follows the offset.
C25_ShdrName ==
    libret.call = "name" =>
        LET off == elf.shdrs[libret.k].name
            tab == elf.shstrtab
            len == Len(libret.out.s)
        IN  /\ ~libret.out.none =>
                   /\ off < Len(tab)
                   /\ off + len + 1 <= Len(tab)
                   /\ tab[off + len + 1] = 0
                   /\ \A i \in 1..len :
                          libret.out.s[i] = tab[off + i] /\ tab[off + i] # 0
            /\ libret.out.none <=>
                   \/ ~elf.has_shstrtab
                   \/ off >= Len(tab)
                   \/ \A i \in (off + 1)..Len(tab) : tab[i] # 0

\* the name .rodata was returned for a header whose offset is inside the
\* table.
C25_Witness ==
    /\ libret.call = "name"
    /\ ~libret.out.none
    /\ elf.shdrs[libret.k].name = 13
    /\ libret.out.s = <<46, 114, 111, 100, 97, 116, 97>>

\* the parser has returned from a file that it accepted.
Parsed == libret.call \in {"parse", "undefined"} /\ ~parse_fails(file)

\* C24: a program-header table, a section-header table or the
\* section-header string table is read only when its whole byte range lies
\* within the file, also for offsets near 2^32 and 2^64; otherwise the
\* table is treated as empty and no byte outside the buffer is read.
C24_TablesInFile ==
    Parsed =>
        /\ ~libret.oob
        /\ libret.call = "parse"
        /\ elf.phdrs > 0 =>
               in_file(file.phoff, file.phnum * elf_sizeof(file.class, 2),
                       file.size)
        /\ elf.shdrs # <<>> =>
               in_file(file.shoff, file.shnum * elf_sizeof(file.class, 3),
                       file.size)
        /\ elf.has_shstrtab =>
               in_file(file.shtab[file.shstrndx + 1].offset,
                       file.shtab[file.shstrndx + 1].size, file.size)

\* C26: elf_parse returns an ELF model only when the file can be opened
\* and read in full, is at least one header of its class long, starts with
\* the magic bytes and has class 1 or 2; in every other case it returns
\* none.
C26_ParseAccepts ==
    libret.call = "parse" =>
        (~elf.null <=>
            /\ ~file.null
            /\ file.readok
            /\ file.magic
            /\ \/ file.class = 1 /\ file.size >= 52
               \/ file.class = 2 /\ file.size >= 64)

\* a 32-bit file of exactly 52 bytes was accepted.
C26_Witness ==
    /\ libret.call = "parse"
    /\ ~elf.null
    /\ file.class = 1
    /\ file.size = 52

(***************************************************************************)
(* Properties of the presentation model and of the sequences.              *)
(***************************************************************************)
\* C27: ui_model_clear followed by ui_model_add_insns(X) leaves the
\* instruction sequence equal to X, element for element and in X's order,
\* with selected = 0 and scroll = 0.
C27_ClearThenAdd ==
    (libret.call = "add_insns" /\ libret.after_clear) =>
        /\ Len(instructions) = Len(libret.x)
        /\ \A i \in 1..Len(libret.x) : instructions[i] = libret.x[i]
        /\ selected = 0
        /\ scroll = 0

\* a batch of several instructions, in descending address order, was added
\* after a clear.
C27_Witness ==
    /\ libret.call = "add_insns"
    /\ libret.after_clear
    /\ Len(instructions) >= 2
    /\ instructions[1].address > instructions[2].address

\* C28: ui_model_set_view(m) sets view_mode to m, selected and scroll to 0,
\* writes the status "switched to <strings|symbols|instructions> view" for
\* m and leaves the three sequences and the command buffer unchanged;
\* applying it a second time with the same m changes nothing.
C28_SetView ==
    [][(libret'.call = "set_view" /\ libret'.n = libret.n + 1) =>
           /\ view_mode' = libret'.mode
           /\ selected' = 0
           /\ scroll' = 0
           /\ status'.msg = "switched to %s view"
           /\ status'.text = (IF libret'.mode = "STRINGS" THEN "strings"
                              ELSE IF libret'.mode = "SYMBOLS" THEN "symbols"
                              ELSE "instructions")
           /\ UNCHANGED <<instructions, strings, symbols, cmd>>
           /\ (libret.call = "set_view" /\ libret.mode = libret'.mode) =>
                  UNCHANGED <<view_mode, selected, scroll, status>>]_vars

\* set_view was applied twice with the same mode to a model that holds
\* instructions and a typed command line.
C28_Witness ==
    /\ libret.call = "set_view"
    /\ libret.n = 2
    /\ libret.mode = "SYMBOLS"
    /\ view_mode = "SYMBOLS"
    /\ status.text = "symbols"
    /\ instructions # <<>>
    /\ cmd # <<>>

\* C29: dyna_push reports a failure to grow to its caller and then leaves
\* length, capacity and elements unchanged; on success the item is stored
\* at index length, length grows by one, and capacity goes from 0 to 16 and
\* then doubles each time it is exhausted.
C29_PushContract ==
    [][(libret'.call = "push" /\ libret'.n = libret.n + 1) =>
           IF libret'.failed
           THEN /\ libret'.ret = "failure"
                /\ dyna' = dyna
           ELSE /\ dyna'.length = dyna.length + 1
                /\ dyna'.data[dyna.length + 1] = libret'.item
                /\ \A i \in 1..dyna.length : dyna'.data[i] = dyna.data[i]
                /\ dyna'.capacity =
                       IF dyna.length < dyna.capacity THEN dyna.capacity
                       ELSE IF dyna.capacity = 0 THEN 16
                       ELSE 2 * dyna.capacity]_vars

\* the elements of s that are left when the one at position k is taken out,
\* in their order.
Without(s, k) == SubSeq(s, 1, k - 1) \o SubSeq(s, k + 1, Len(s))

\* C30: dyna_pop(i) with i < length returns the element that was at index
\* i, decreases length by one, leaves capacity unchanged and keeps the
\* remaining elements in their previous relative order; with i >= length it
\* returns the null value and leaves the sequence unchanged.
C30_PopContract ==
    [][(libret'.call = "pop" /\ libret'.pops = libret.pops + 1) =>
           LET i == libret'.item
           IN  IF i < dyna.length
               THEN /\ libret'.ret = dyna.data[i + 1]
                    /\ dyna'.length = dyna.length - 1
                    /\ dyna'.capacity = dyna.capacity
                    /\ dyna'.data = Without(dyna.data, i + 1)
                    /\ Len(dyna'.data) = dyna'.length
               ELSE /\ libret'.ret = NULL
                    /\ dyna' = dyna]_vars

\* an element below the top was popped out of a sequence that had grown
\* past its first capacity, and a second one after it.
C30_Witness ==
    /\ libret.call = "pop"
    /\ libret.pops = 2
    /\ ~libret.failed
    /\ libret.item = 1
    /\ libret.ret = 3
    /\ dyna.capacity = 32
    /\ dyna.length >= 15
    /\ dyna.data[1] = 2

\* C31: dyna_make(data, n) returns a sequence of length n and capacity n in
\* which, for every i < n, the element at index i equals data[i].
C31_MakeCopies ==
    (libret.call = "make") =>
        /\ dyna.length = Len(libret.item)
        /\ dyna.capacity = Len(libret.item)
        /\ \A i \in 1..Len(libret.item) : dyna.data[i] = libret.item[i]

\* the pool has drained: nothing is queued and no worker holds a job.
PoolDrained ==
    /\ ring.count = 0
    /\ \A w \in 1..count :
           wjob[w] = NULL /\ wpc[w] \notin {"call", "infn", "adding", "done"}

\* C32: after an open command has returned and the pool has drained, every
\* instruction in the model was decoded from the file opened last: batches
\* of jobs posted by an earlier open are not appended to the instruction
\* sequence created for the later one.
C32_OnlyTheOpenedFile ==
    (uxpc \in {"draw", "getch"} /\ nopen >= 1 /\ g_ctx # NULL /\ PoolDrained) =>
        \A i \in 1..Len(instructions) : instructions[i].file = g_ctx

Max(a, b) == IF a > b THEN a ELSE b
Min(a, b) == IF a < b THEN a ELSE b

\* the code ranges of the context that [vs, ve) intersects, by their index
\* in the sequence.
Hit(vs, ve) ==
    {k \in 1..Len(ctx.code_ranges) :
        LET r == ctx.code_ranges[k]
        IN  Max(r.vaddr, vs) < Min(r.vaddr + r.length, ve)}

\* the n-th smallest element of a set of numbers.
Nth(S, n) == CHOOSE k \in S : Cardinality({m \in S : m <= k}) = n

\* C33: for all vstart and vend (vstart >= vend included), emit_range posts
\* exactly one job for each code range that [vstart, vend) intersects and
\* none for the others; each job's window is that intersection, so its
\* length is > 0 and no larger than the range, and its bytes lie inside the
\* .text copy.
C33_OneJobPerIntersection ==
    [][(libret'.call = "range" /\ ehist'.calls = ehist.calls + 1
                               /\ ctx.valid) =>
           LET vs == libret'.vs
               ve == libret'.ve
               jobs == libret'.jobs
               hit == Hit(vs, ve)
           IN  /\ Len(jobs) = Cardinality(hit)
               /\ ring'.count = ring.count + Len(jobs)
               /\ \A n \in 1..Len(jobs) :
                      LET r == ctx.code_ranges[Nth(hit, n)]
                          job == jobs[n]
                      IN  /\ job = jobarg'[njobs + n]
                          /\ job.vaddr = Max(r.vaddr, vs)
                          /\ job.vaddr + job.length =
                                 Min(r.vaddr + r.length, ve)
                          /\ job.length > 0
                          /\ job.length <= r.length
                          /\ job.offset = job.vaddr - ctx.text_vaddr
                          /\ job.offset >= 0
                          /\ job.offset + job.length <= Len(ctx.text_data)]_vars

\* a window that cuts two ranges was posted as two jobs.
C33_Witness ==
    /\ libret.call = "range"
    /\ libret.vs = TextVaddr + 1
    /\ libret.ve = TextVaddr + 19
    /\ Len(libret.jobs) = 2
    /\ libret.jobs[1].length = 1
    /\ libret.jobs[2].length = 1
    /\ ring.count = 2

\* a window that ends before it starts, inside a range, posted nothing.
C33_WitnessReversed ==
    /\ libret.call = "range"
    /\ libret.vs = TextVaddr + 3
    /\ libret.ve = TextVaddr + 1
    /\ \E k \in 1..Len(ctx.code_ranges) :
           /\ ctx.code_ranges[k].vaddr = TextVaddr
           /\ ctx.code_ranges[k].length >= 5
    /\ Len(libret.jobs) = 0

\* C34: when wrk_pool_shutdown returns the job queue is empty, and every
\* job that was successfully posted before the shutdown has been executed.
C34_ShutdownRunsEveryJob ==
    [][ShutdownReturns =>
          /\ ring'.count = 0
          /\ \A j \in posted' : invoked'[j] = 1 /\ j \in returned']_vars

\* whether seq is a concatenation of whole batches of posted jobs.
RECURSIVE WholeBatches(_)
WholeBatches(seq) ==
    \/ seq = <<>>
    \/ \E j \in posted :
           LET b == Batch(j)
           IN  /\ Len(b) >= 1
               /\ Len(b) <= Len(seq)
               /\ SubSeq(seq, 1, Len(b)) = b
               /\ WholeBatches(SubSeq(seq, Len(b) + 1, Len(seq)))

\* the ends of the batches that an open has cut off.
BatchTails ==
    {<<>>} \cup UNION {{SubSeq(Batch(j), a, Len(Batch(j))) :
                           a \in 1..Len(Batch(j))} : j \in posted}

\* the part that the workers inside ui_model_add_insns have appended so far:
\* the items up to widx - 1 of the batch, from some item on.
BatchParts ==
    IF \E w \in 1..count : wpc[w] = "adding"
    THEN UNION {{SubSeq(Batch(wjob[w]), a, widx[w] - 1) : a \in 1..widx[w]} :
                   w \in {v \in 1..count : wpc[v] = "adding"}}
    ELSE {<<>>}

\* C37: a batch is appended to the model atomically: in the instruction
\* sequence the instructions of one published batch occupy a contiguous
\* index range in the batch's own order, never interleaved with those of a
\* batch published by another worker.  The sequence is a row of whole
\* batches, after the end of a batch that an open cut off, and before the
\* part of the batch that is being appended.
C37_BatchesContiguous ==
    (uxpc # "undefined" /\ ~session.oom) =>
        \E head \in BatchTails, part \in BatchParts :
            /\ Len(head) + Len(part) <= Len(instructions)
            /\ SubSeq(instructions, 1, Len(head)) = head
            /\ SubSeq(instructions, Len(instructions) - Len(part) + 1,
                      Len(instructions)) = part
            /\ WholeBatches(SubSeq(instructions, Len(head) + 1,
                                   Len(instructions) - Len(part)))

\* two workers have published the two batches of a file, the batch of the
\* higher addresses first.
C37_Witness ==
    /\ count = 2
    /\ Len(instructions) = 3
    /\ instructions[1].address = 26
    /\ instructions[2].address = 16
    /\ instructions[3].address = 19
    /\ \A w \in 1..count : wpc[w] # "adding"

(***************************************************************************)
(* Properties of the disassembly jobs.                                     *)
(***************************************************************************)
\* C35: per worker thread at most one decoder handle is open at any time
\* (the previous one is closed before another is opened); whenever a job
\* decodes bytes the open handle was opened for that job's tuple; and a job
\* whose decoder open fails publishes no batch.
C35_OneDecoderPerThread ==
    (~disj.null) =>
        /\ \A w \in 1..count :
               /\ disj.peak[w] <= 1
               /\ disj.handles[w] = (IF disj.tls[w].ok THEN 1 ELSE 0)
        /\ (disj.last.call = "run" /\ disj.last.decoded) =>
               disj.last.handle = disj.last.tuple
        /\ (disj.last.call = "run" /\ disj.last.failure = "open") =>
               disj.last.job \notin disj.published

\* a worker that had a decoder for one tuple has decoded a job of another
\* tuple, and a job whose cs_open failed has come and gone.
C35_Witness ==
    /\ ~disj.null
    /\ disj.last.call = "run"
    /\ disj.last.decoded
    /\ disj.last.tuple = "arm"
    /\ disj.last.job = 3
    /\ 1 \in disj.published
    /\ disj.job[1].tuple = "x86_64"
    /\ disj.job[2].tuple = "bad"
    /\ disj.job[2].dfreed = 1
    /\ count = 1

\* C36: the byte copy and the job record of each disassembly job are freed
\* exactly once on every path, by the poster when the post fails and by the
\* worker otherwise; never twice, and never read after being freed.
C36_FreedExactlyOnce ==
    (~disj.null /\ disj.state = "running") =>
        \A j \in 1..njobs :
            LET job == disj.job[j]
                waiting == j \in Range(RingContents(ring))
            IN  /\ ~job.stale
                /\ job.dfreed = (IF waiting THEN 0 ELSE 1)
                /\ job.rfreed = (IF waiting \/ job.rec = "none" THEN 0 ELSE 1)

\* C38: an allocation that fails inside a worker while it runs a
\* disassembly job aborts that job alone: no batch is published for it and
\* the worker goes on to serve later jobs.
C38_FailedJobAborted ==
    (~disj.null /\ disj.last.call = "run"
                /\ disj.last.failure \in {"tls", "result", "record", "push",
                                          "message"}) =>
        /\ disj.state = "running"
        /\ disj.last.job \notin disj.published

\* C39: when the creation of the i-th worker thread fails in
\* wrk_pool_create, the pool is marked shutting down, the i workers already
\* started are woken and joined, every resource allocated for the pool
\* (thread array, mutex, both condition variables, job queue, pool record)
\* is released, and create returns no pool.
C39_CreateRollsBack ==
    (libret.call = "create" /\ libret.thread_failed /\ fgpc = "create_failed") =>
        /\ libret.rv = "null"
        /\ shutting_down
        /\ \A w \in 1..fgj : wpc[w] = "exited" /\ w \in joined
        /\ libret.threads = "released"
        /\ libret.mutex = "released"
        /\ libret.has_work = "released"
        /\ libret.idle = "released"
        /\ libret.job_queue = "released"
        /\ libret.pool = "released"

\* C40: every symbol-table entry that emit_extract_symbols reads lies wholly
\* inside the buffer read for the symbol section, for every sh_size and
\* sh_entsize (an entry size smaller than the record of the class, a size
\* that is not a multiple of the entry size).
C40_EntriesInsideBuffer ==
    libret.call = "entries"
        => \A r \in libret.reads : r.from >= 0 /\ r.to <= libret.buffer

====
